---- MODULE Spec2Model ----
(***************************************************************************)
(* Model of the expense pipeline of src/expenses: currency coercion        *)
(* (normalization.py), the Amount Resolver and the expense filter          *)
(* (runner.py), and the keyword Categorizer with its diagnostics           *)
(* (categorizer.py, categories.py).                                        *)
(*                                                                         *)
(* Text is modelled by TLA+ strings, character by character.  A table is a *)
(* sequence of rows; a row is a record holding its index label and one     *)
(* cell per column; a cell is a text or the missing value.  Numbers are    *)
(* exact decimals [m, e] standing for m / 10^e.                            *)
(***************************************************************************)
EXTENDS Integers, Sequences, FiniteSets, TLC

(***************************************************************************)
(* Text helpers: Python's str methods used by the code.                    *)
(***************************************************************************)
LowerChars == "abcdefghijklmnopqrstuvwxyz"
UpperChars == "ABCDEFGHIJKLMNOPQRSTUVWXYZ"
DigitChars == "0123456789"

Char(s, i) == SubSeq(s, i, i)

CharsOf(s) == {Char(s, i) : i \in 1..Len(s)}

LowerSet == CharsOf(LowerChars)

DigitSet == CharsOf(DigitChars)

\* the whitespace str.strip() and the regex class \s remove
Whitespace == {" ", "\t", "\n", "\r"}

ToUpperChar ==
  [c \in LowerSet |->
     Char(UpperChars, CHOOSE i \in 1..Len(LowerChars) : Char(LowerChars, i) = c)]

UpperChar(c) == IF c \in LowerSet THEN ToUpperChar[c] ELSE c

Min(S) == CHOOSE x \in S : \A y \in S : x <= y

\* the texts piece[lo], ..., piece[hi] put together, by halves
RECURSIVE str_join(_, _, _)
str_join(piece, lo, hi) ==
  IF lo > hi THEN ""
  ELSE IF lo = hi THEN piece[lo]
  ELSE str_join(piece, lo, (lo + hi) \div 2) \o str_join(piece, (lo + hi) \div 2 + 1, hi)

str_upper(s) == str_join([i \in 1..Len(s) |-> UpperChar(Char(s, i))], 1, Len(s))

\* the positions of s that hold no whitespace
Inked(s) == {i \in 1..Len(s) : Char(s, i) \notin Whitespace}

str_lstrip(s) ==
  IF s = "" \/ Head(s) \notin Whitespace THEN s
  ELSE IF Inked(s) = {} THEN ""
  ELSE SubSeq(s, CHOOSE i \in Inked(s) : \A j \in 1..(i - 1) : j \notin Inked(s), Len(s))

str_rstrip(s) ==
  IF s = "" \/ Char(s, Len(s)) \notin Whitespace THEN s
  ELSE IF Inked(s) = {} THEN ""
  ELSE SubSeq(s, 1, CHOOSE i \in Inked(s) : \A j \in (i + 1)..Len(s) : j \notin Inked(s))

str_strip(s) == str_rstrip(str_lstrip(s))

ToLowerChar ==
  [c \in CharsOf(UpperChars) |->
     Char(LowerChars, CHOOSE i \in 1..Len(UpperChars) : Char(UpperChars, i) = c)]

LowerChar(c) == IF c \in CharsOf(UpperChars) THEN ToLowerChar[c] ELSE c

str_lower(s) == str_join([i \in 1..Len(s) |-> LowerChar(Char(s, i))], 1, Len(s))

str_endswith(s, suffix) ==
  Len(s) >= Len(suffix) /\ SubSeq(s, Len(s) - Len(suffix) + 1, Len(s)) = suffix

\* s with every occurrence of the character c removed
str_remove(s, c) ==
  str_join([i \in 1..Len(s) |-> IF Char(s, i) = c THEN "" ELSE Char(s, i)], 1, Len(s))

\* A cell (a value of a table or a series) is a text, Text(s), or the
\* missing value (NaN / None)
Missing == [missing |-> TRUE]

Text(s) == [text |-> s]

notna(v) == v # Missing

\* Series.astype(str): a missing cell becomes the text "nan"
astype_str(v) == IF v = Missing THEN "nan" ELSE v.text

(***************************************************************************)
(* categories.py: the rule set, in its dict order.                         *)
(***************************************************************************)
CATEGORY_RULES ==
  <<
     [category |-> "Car Care",
      keywords |-> <<"DON MILLER", "MERMAID CAR WASH", "CAR WASH">>],
     [category |-> "Coffee",
      keywords |-> <<"STARBUCKS", "DUNKIN", "PEETS", "COFFEE", "BARRIQUES", "KAFE">>],
     [category |-> "Cash & ATM",
      keywords |-> <<"WITHDRAWAL", "ATM">>],
     [category |-> "Dining",
      keywords |-> <<"MCDONALD", "CHIPOTLE", "SUBWAY", "GRUBHUB", "UBER EATS", "DOORDASH", "HMONG", "FOODS">>],
     [category |-> "Entertainment",
      keywords |-> <<"NETFLIX", "HULU", "SPOTIFY", "DISNEY", "YOUTUBE", "PRIME">>],
     [category |-> "Gas/Automotive",
      keywords |-> <<"ESSO", "SPEEDWAY", "KWIK", "SHELL", "CHEVRON", "BP", "MOBIL", "TEXACO", "SUNOCO", "CITGO", "OIL CHANGE", "CAR WASH", "REPAIR", "MAINTENANCE", "TIRE", "AUTO PARTS", "JIFFY LUBE", "VALVOLINE">>],
     [category |-> "Groceries",
      keywords |-> <<"SAFEWAY", "KROGER", "WHOLE FOODS", "TRADER JOE", "GROCERY", "WOODMAN", "METRO", "SAMSCLUB", "SAMS CLUB">>],
     [category |-> "Humanitarian",
      keywords |-> <<"GOFUNDME", "DOCTORS W/O BORDER", "ACLU", "DOCTORSWITHOUTBORDERS">>],
     [category |-> "Lodging",
      keywords |-> <<"LODGING", "HOTEL", "RESORT">>],
     [category |-> "Mobile Pay",
      keywords |-> <<"VENMO", "PAYPAL", "eBAY", "ZELLE">>],
     [category |-> "Other_Travel",
      keywords |-> <<"OTHER TRAVEL", "TRAVEL MISC">>],
     [category |-> "Recreation",
      keywords |-> <<"SMOKE", "MARIJUANA">>],
     [category |-> "Rent",
      keywords |-> <<"SHILTS">>],
     [category |-> "Shopping",
      keywords |-> <<"AMAZON", "TARGET", "WALMART", "BEST BUY">>],
     [category |-> "Thrifting",
      keywords |-> <<"St. Vincent De Paul", "SVDP", "GOODWILL", "SUPERTHRIFT">>],
     [category |-> "Transit",
      keywords |-> <<"UBER", "LYFT", "METRO", "TRANSIT", "PARKING", "TOLLS", "PRESTO", "TOLLWAY", "PAYGO", "BADGER COACHES">>],
     [category |-> "Airfare",
      keywords |-> <<"AIRLINE", "DELTA", "UNITED", "AA ", "AMERICAN AIRLINES", "SOUTHWEST", "TRAIN", "AMTRAK", "BUS", "AMERICAN AIR">>]
  >>

(***************************************************************************)
(* categorizer.py: pattern compilation and the regex search.               *)
(***************************************************************************)
\* sorted(keywords, key=len, reverse=True): a stable sort, longest first
sorted_by_len_desc(keywords) ==
  LET n == Len(keywords)
      \* keyword j comes before keyword k: it is longer, or as long and earlier
      before(j, k) == \/ Len(keywords[j]) > Len(keywords[k])
                      \/ Len(keywords[j]) = Len(keywords[k]) /\ j < k
      rank(k) == Cardinality({j \in 1..n : before(j, k)}) + 1
  IN  [r \in 1..n |-> keywords[CHOOSE k \in 1..n : rank(k) = r]]

\* _COMPILED_CATEGORY_PATTERNS after _initialize_patterns: per category, in
\* the rule set's order, the alternatives of its pattern (case folded, as
\* re.IGNORECASE compares them) in the order of the alternation
initialize_patterns ==
  [c \in 1..Len(CATEGORY_RULES) |->
     LET alts == sorted_by_len_desc(CATEGORY_RULES[c].keywords)
     IN  [category |-> CATEGORY_RULES[c].category,
          alternatives |-> [k \in 1..Len(alts) |-> str_upper(alts[k])]]]

\* nothing compiled yet: the dicts of lines 14-15 as the module defines them
NoPatterns == << >>

\* a registry that compiles the patterns again on every call, after those
\* it holds
initialize_patterns_again(compiled) ==
  IF compiled # NoPatterns THEN compiled \o initialize_patterns ELSE initialize_patterns

\* _COMPILED_CATEGORY_PATTERNS after a call of _initialize_patterns() that
\* found it holding compiled: lines 31-32 return when it is not empty
initialize_patterns_once(compiled) ==
  IF compiled # NoPatterns THEN compiled ELSE initialize_patterns

\* the substrings of a text
Substrings(s) == {SubSeq(s, p, q) : p \in 1..Len(s), q \in 1..Len(s)}

\* whether the alternative alt matches the text at position p, ignoring case
MatchesAt(text_folded, alt, p) ==
  /\ p + Len(alt) - 1 <= Len(text_folded)
  /\ SubSeq(text_folded, p, p + Len(alt) - 1) = alt

\* the match at the leftmost matching position p: the first alternative, in
\* the pattern's order, that matches there
first_match(alternatives, text, at, p) ==
  Text(SubSeq(text, p, p + Len(alternatives[Min(at[p])]) - 1))

\* compiled_pattern.search(text): the leftmost position where some
\* alternative matches and, there, the first alternative in the pattern's
\* order; match.group(0) is the matched part of the text.  Missing: no match.
\* folded is the text case folded and parts the set of its substrings (an
\* alternative matches somewhere exactly when it is one of them)
search_folded(alternatives, text, folded, parts) ==
  LET live == {k \in 1..Len(alternatives) : alternatives[k] \in parts}
      \* per position, the alternatives that match there
      at == [p \in 1..Len(text) |-> {k \in live : MatchesAt(folded, alternatives[k], p)}]
      hits == {p \in 1..Len(text) : at[p] # {}}
  IN  IF live = {} THEN Missing
      ELSE first_match(alternatives, text, at, Min(hits))

\* the categories tried in the reverse order: the last one found wins
last_hit(patterns, found) ==
  LET hits == {c \in 1..Len(patterns) : found[c] # Missing}
      last == CHOOSE c \in hits : \A d \in hits : d <= c
  IN  IF hits = {} THEN <<Missing, Missing>>
      ELSE <<Text(patterns[last].category), found[last]>>

\* _match_category_and_keyword(text): <<category, matched keyword>> of the
\* first category, in the order of the compiled patterns, whose pattern is
\* found in the uppercased text; <<Missing, Missing>> for a blank text or
\* when no pattern is found
first_hit(patterns, found) ==
  LET hits == {c \in 1..Len(patterns) : found[c] # Missing}
  IN  IF hits = {} THEN <<Missing, Missing>>
      ELSE <<Text(patterns[Min(hits)].category), found[Min(hits)]>>

search_all(patterns, normalized) ==
  CHOOSE hit \in
    {first_hit(patterns,
               [c \in 1..Len(patterns) |->
                  search_folded(patterns[c].alternatives, normalized, folded, parts)]) :
       folded \in {str_upper(normalized)}, parts \in {Substrings(str_upper(normalized))}} : TRUE

\* compiled: _COMPILED_CATEGORY_PATTERNS as the call finds it
match_category_and_keyword(compiled, text) ==
  IF text = "" \/ str_strip(text) = "" THEN <<Missing, Missing>>
  ELSE search_all(compiled, str_upper(text))

(***************************************************************************)
(* Numbers: an exact decimal [m, e] is m / 10^e, kept in lowest form (no   *)
(* trailing zero in the fraction).  NaN is the missing value.              *)
(***************************************************************************)
RECURSIVE DecNorm(_, _)
DecNorm(m, e) ==
  IF e > 0 /\ m % 10 = 0 THEN DecNorm(m \div 10, e - 1) ELSE [m |-> m, e |-> e]

Dec(n) == [m |-> n, e |-> 0]

NaN == Missing

Neg(x) == IF x = NaN THEN NaN ELSE [m |-> 0 - x.m, e |-> x.e]

IsNeg(x) == x # NaN /\ x.m < 0

IsPos(x) == x # NaN /\ x.m > 0

DigitVal(c) == (CHOOSE i \in 1..Len(DigitChars) : Char(DigitChars, i) = c) - 1

IsDigits(s) == \A i \in 1..Len(s) : Char(s, i) \in DigitSet

RECURSIVE DigitsValue(_)
DigitsValue(s) ==
  IF s = "" THEN 0
  ELSE 10 * DigitsValue(SubSeq(s, 1, Len(s) - 1)) + DigitVal(Char(s, Len(s)))

\* pd.to_numeric(s, errors="coerce") of one text without whitespace or
\* letters of a float word: an optional sign, digits with an optional
\* decimal point and at least one digit; anything else is NaN
to_numeric(s) ==
  LET signed == s # "" /\ Head(s) \in {"-", "+"}
      body == IF signed THEN Tail(s) ELSE s
      dots == {i \in 1..Len(body) : Char(body, i) = "."}
      int_part == IF dots = {} THEN body ELSE SubSeq(body, 1, Min(dots) - 1)
      frac_part == IF dots = {} THEN "" ELSE SubSeq(body, Min(dots) + 1, Len(body))
      mag == DigitsValue(int_part \o frac_part)
  IN  IF /\ Cardinality(dots) <= 1
         /\ IsDigits(int_part) /\ IsDigits(frac_part)
         /\ int_part \o frac_part # ""
      THEN DecNorm(IF signed /\ Head(s) = "-" THEN 0 - mag ELSE mag, Len(frac_part))
      ELSE NaN

(***************************************************************************)
(* normalization.py                                                        *)
(***************************************************************************)
\* s.str.replace(r"^\((.*)\)$", r"-\1", regex=True) on one text
replace_parens(s) ==
  IF Len(s) >= 2 /\ Head(s) = "(" /\ Char(s, Len(s)) = ")"
  THEN "-" \o SubSeq(s, 2, Len(s) - 1)
  ELSE s

\* only a dollar sign at the head of the text removed
remove_leading_dollar(s) == IF s # "" /\ Head(s) = "$" THEN Tail(s) ELSE s

\* the dollar signs removed from one text: s.str.replace(r"\$", "", regex=True)
remove_dollar(s) == str_remove(s, "$")

\* coerce_money on one cell
coerce_money_value(v) ==
  to_numeric(replace_parens(str_remove(remove_dollar(str_strip(astype_str(v))), ",")))

\* coerce_money(series), the series given as a function of its positions
coerce_money(series) == [i \in DOMAIN series |-> coerce_money_value(series[i])]

\* None as a column name; the code tests column names by truth value, which
\* the empty name fails as None does
NoColumn == ""

\* pick_col(df, candidates): the first candidate that is a column, or None
pick_col(columns, candidates) ==
  LET found == {i \in 1..Len(candidates) : candidates[i] \in columns}
  IN  IF found = {} THEN NoColumn ELSE candidates[Min(found)]

(***************************************************************************)
(* categories.py: the canonical remap, in its dict order.  Every pattern   *)
(* has the shape ^\s* part [_\s]* part ... \s*$ under (?i); a pattern is   *)
(* held as its literal parts, case folded.                                 *)
(***************************************************************************)
CATEGORY_CANON ==
  <<
     [parts |-> <<"LODGING">>, value |-> "Travel"],
     [parts |-> <<"AIRFARE">>, value |-> "Travel"],
     [parts |-> <<"OTHER", "TRAVEL">>, value |-> "Travel"],
     [parts |-> <<"GAS", "/", "AUTOMOTIVE">>, value |-> "Travel"],
     [parts |-> <<"COFFEE">>, value |-> "Household"],
     [parts |-> <<"DINING", "OUT">>, value |-> "Household"],
     [parts |-> <<"DINING">>, value |-> "Household"],
     [parts |-> <<"GROCERIES">>, value |-> "Household"],
     [parts |-> <<"FOOD & DINING">>, value |-> "Household"],
     [parts |-> <<"SHOPPING">>, value |-> "Household"],
     [parts |-> <<"PHARMACY">>, value |-> "Household"],
     [parts |-> <<"MERCHANDISE">>, value |-> "Household"]
  >>

\* the characters of the class [_\s]
GapChars == Whitespace \cup {"_"}

RECURSIVE skip_gap(_)
skip_gap(s) == IF s # "" /\ Head(s) \in GapChars THEN skip_gap(Tail(s)) ELSE s

\* whether the folded text s is part [_\s]* part ... and nothing more
RECURSIVE parts_match(_, _)
parts_match(parts, s) ==
  IF parts = << >> THEN s = ""
  ELSE LET part == Head(parts)
       IN  /\ Len(s) >= Len(part)
           /\ SubSeq(s, 1, Len(part)) = part
           /\ LET rest == SubSeq(s, Len(part) + 1, Len(s))
              IN  IF Len(parts) = 1 THEN rest = ""
                  ELSE parts_match(Tail(parts), skip_gap(rest))

\* re.search of one canon pattern in the text s
canon_pattern_matches(pattern, s) == parts_match(pattern.parts, str_upper(str_strip(s)))

\* the patterns tried without the flag (?i)
canon_step_cased(k, s) ==
  IF parts_match(CATEGORY_CANON[k].parts, str_strip(s)) THEN CATEGORY_CANON[k].value ELSE s

\* Series.replace(CATEGORY_CANON, regex=True) on one text: the patterns are
\* substituted one after the other, each on the result of the previous one
canon_step(k, s) ==
  IF canon_pattern_matches(CATEGORY_CANON[k], s) THEN CATEGORY_CANON[k].value ELSE s

\* the patterns lo..hi substituted in their order: the second half of them
\* on the text t that the first half leaves
RECURSIVE canon_replace_range(_, _, _)
canon_replace_range(lo, hi, s) ==
  IF lo = hi THEN canon_step(lo, s)
  ELSE CHOOSE r \in {canon_replace_range((lo + hi) \div 2 + 1, hi, t) :
                       t \in {canon_replace_range(lo, (lo + hi) \div 2, s)}} : TRUE

canon_replace(v) ==
  IF v = Missing THEN Missing
  ELSE Text(canon_replace_range(1, Len(CATEGORY_CANON), v.text))

(***************************************************************************)
(* Tables.  A table is [columns, rows]: the set of its column names and    *)
(* the sequence of its rows; a row is [index, cells] with cells a function *)
(* from the column names to cells.  A series is a function from the        *)
(* positions 1..Len(rows) of the table it is aligned with.                 *)
(***************************************************************************)
Column(df, col) == [i \in 1..Len(df.rows) |-> df.rows[i].cells[col]]

\* the positions of a table, in order, that satisfy the mask
PositionsFrom(mask, i, n) ==
  LET on == {j \in i..n : mask[j]}
  IN  [k \in 1..Cardinality(on) |->
         CHOOSE j \in on : Cardinality({l \in on : l <= j}) = k]

\* df[mask]
FilterRows(df, mask) ==
  LET keep == PositionsFrom(mask, 1, Len(df.rows))
  IN  [columns |-> df.columns, rows |-> [k \in 1..Len(keep) |-> df.rows[keep[k]]]]

\* df[col] = series
WithColumn(df, col, series) ==
  [columns |-> df.columns \cup {col},
   rows |-> [i \in 1..Len(df.rows) |->
               [index |-> df.rows[i].index,
                cells |-> [c \in df.columns \cup {col} |->
                             IF c = col THEN series[i] ELSE df.rows[i].cells[c]]]]]

(***************************************************************************)
(* runner.py: the Amount Resolver.                                         *)
(***************************************************************************)
\* the 20% of line 211, in percent
SignThresholdPct == 20

Max(a, b) == IF a >= b THEN a ELSE b

\* the strategies tried with the amount column before the debit column
signed_of_group_amount_first(df_all, group, debit_col, credit_col, amount_col) ==
  LET has(col) == /\ col # NoColumn
                  /\ col \in df_all.columns
                  /\ \E i \in group : notna(df_all.rows[i].cells[col])
  IN  IF has(amount_col)
      THEN LET amt == [i \in group |-> coerce_money_value(df_all.rows[i].cells[amount_col])]
               neg_cnt == Cardinality({i \in group : IsNeg(amt[i])})
               pos_cnt == Cardinality({i \in group : IsPos(amt[i])})
               fifth == (SignThresholdPct * Max(1, pos_cnt)) \div 100
           IN  IF neg_cnt >= Max(1, fifth)
               THEN [i \in group |-> IF IsNeg(amt[i]) THEN amt[i] ELSE Dec(0)]
               ELSE [i \in group |-> IF IsPos(amt[i]) THEN Neg(amt[i]) ELSE Dec(0)]
      ELSE IF has(debit_col)
      THEN [i \in group |->
              LET v == df_all.rows[i].cells[debit_col]
              IN  Neg(coerce_money_value(IF notna(v) THEN v ELSE Text("0")))]
      ELSE IF has(credit_col)
      THEN [i \in group |-> Dec(0)]
      ELSE [i \in group |-> NaN]

\* the body of the loop for one group: the signed amount of each position
\* of the group (a set of positions of df_all)
signed_of_group(df_all, group, debit_col, credit_col, amount_col) ==
  LET has(col) == /\ col # NoColumn
                  /\ col \in df_all.columns
                  /\ \E i \in group : notna(df_all.rows[i].cells[col])
  IN  IF has(debit_col)
      THEN \* group[debit_col].fillna(0), coerced and negated
           [i \in group |->
              LET v == df_all.rows[i].cells[debit_col]
              IN  Neg(coerce_money_value(IF notna(v) THEN v ELSE Text("0")))]
      ELSE IF has(amount_col)
      THEN LET amt == [i \in group |-> coerce_money_value(df_all.rows[i].cells[amount_col])]
               neg_cnt == Cardinality({i \in group : IsNeg(amt[i])})
               pos_cnt == Cardinality({i \in group : IsPos(amt[i])})
               \* int(0.2 * max(1, pos_cnt))
               fifth == (SignThresholdPct * Max(1, pos_cnt)) \div 100
           IN  IF neg_cnt >= Max(1, fifth)
               THEN [i \in group |-> IF IsNeg(amt[i]) THEN amt[i] ELSE Dec(0)]
               ELSE [i \in group |-> IF IsPos(amt[i]) THEN Neg(amt[i]) ELSE Dec(0)]
      ELSE IF has(credit_col)
      THEN [i \in group |-> Dec(0)]
      ELSE [i \in group |-> NaN]

\* the key df_all.groupby(...) puts a row under
group_key(df_all, i) == df_all.rows[i].cells["__source_file"]

\* build_signed_amount_per_source: the series of signed amounts
build_signed_amount_per_source(df_all, debit_col, credit_col, amount_col) ==
  LET n == Len(df_all.rows)
      keys == {group_key(df_all, i) : i \in 1..n}
      signed == [k \in keys |->
                   signed_of_group(df_all, {i \in 1..n : group_key(df_all, i) = k},
                                   debit_col, credit_col, amount_col)]
  IN  [i \in 1..n |-> signed[group_key(df_all, i)][i]]

(***************************************************************************)
(* categorizer.py: detect_or_build_category_with_debug.                    *)
(***************************************************************************)
\* the candidate columns of a pre-existing category, in priority order
ExistingCandidates == <<"category", "categories", "cat", "type">>

\* the candidates combined in the reverse order: the last one present wins
existing_value_last(df, i) ==
  LET found == {k \in 1..Len(ExistingCandidates) :
                  /\ ExistingCandidates[k] \in df.columns
                  /\ notna(df.rows[i].cells[ExistingCandidates[k]])}
      last == CHOOSE k \in found : \A j \in found : j <= k
  IN  IF found = {} THEN Missing
      ELSE df.rows[i].cells[ExistingCandidates[last]]

\* lines 106-110: the candidates present are combined with combine_first,
\* so a row takes the value of the first present candidate whose cell is
\* not missing.  The result is Missing for a row without such a cell.
existing_value(df, i) ==
  LET found == {k \in 1..Len(ExistingCandidates) :
                  /\ ExistingCandidates[k] \in df.columns
                  /\ notna(df.rows[i].cells[ExistingCandidates[k]])}
  IN  IF found = {} THEN Missing
      ELSE df.rows[i].cells[ExistingCandidates[Min(found)]]

\* lines 113-122: missing -> "", text stripped, "" -> None
existing_clean_value(df, i) ==
  LET v == existing_value(df, i)
      stripped == str_strip(IF notna(v) THEN v.text ELSE "")
  IN  IF stripped = "" THEN Missing ELSE Text(stripped)

\* line 172: the reason of a miss, from the text of the description
miss_reason(text) ==
  IF text = "" \/ str_strip(text) = "" THEN "empty_description" ELSE "no_keyword_match"

\* match_mask / miss_mask of lines 154 and 168
match_mask(rule_hit_cat) == [i \in DOMAIN rule_hit_cat |-> notna(rule_hit_cat[i])]

\* the misses taken with the mask of the matches
miss_mask_same(rule_hit_cat) == [i \in DOMAIN rule_hit_cat |-> notna(rule_hit_cat[i])]

miss_mask(rule_hit_cat) == [i \in DOMAIN rule_hit_cat |-> ~match_mask(rule_hit_cat)[i]]

\* the source column of the debug tables: the text "" when the table has none
source_cell(df, i, col) == IF col \in df.columns THEN df.rows[i].cells[col] ELSE Text("")

\* round(x, 2) of the float x = num / den (num, den >= 0): the nearest
\* multiple of 0.01, a tie going to the even one
round_2(num, den) ==
  LET scaled == 100 * num
      q == scaled \div den
      r == scaled % den
      up == 2 * r > den \/ (2 * r = den /\ q % 2 = 1)
  IN  DecNorm(IF up THEN q + 1 ELSE q, 2)

\* the coverage truncated to two decimals
coverage_pct_truncated(matched, total_rows) ==
  IF total_rows = 0 THEN Dec(0)
  ELSE DecNorm((100 * 100 * matched) \div total_rows, 2)

\* lines 192 and 198: round(len(matches_df) / total_rows * 100.0, 2), or 0.0
coverage_pct(matched, total_rows) ==
  IF total_rows = 0 THEN Dec(0) ELSE round_2(100 * matched, total_rows)

\* lines 190-198: value_counts of the rule-match categories, reindexed on the
\* categories of the rule set in their order with 0 for the absent ones
summary_of(rule_hit_cat, matched) ==
  LET n == Len(rule_hit_cat)
  IN  [c \in 1..Len(CATEGORY_RULES) |->
         [category |-> CATEGORY_RULES[c].category,
          rule_hits |-> Cardinality({i \in 1..n : rule_hit_cat[i] = Text(CATEGORY_RULES[c].category)}),
          total_rows |-> n,
          rule_coverage_pct |-> coverage_pct(matched, n)]]

\* compiled: _COMPILED_CATEGORY_PATTERNS after line 102
detect_or_build_category_with_debug(df, desc_col, compiled) ==
  LET n == Len(df.rows)
      has_existing == \E k \in 1..Len(ExistingCandidates) : ExistingCandidates[k] \in df.columns
      desc_series == [i \in 1..n |-> astype_str(df.rows[i].cells[desc_col])]
      matches == [i \in 1..n |-> match_category_and_keyword(compiled, desc_series[i])]
      rule_hit_cat == [i \in 1..n |-> matches[i][1]]
      rule_hit_kw == [i \in 1..n |-> matches[i][2]]
      existing_clean == [i \in 1..n |-> IF has_existing THEN existing_clean_value(df, i) ELSE Missing]
      \* lines 135-142
      filled == [i \in 1..n |->
                   LET r == IF notna(rule_hit_cat[i]) THEN rule_hit_cat[i] ELSE existing_clean[i]
                   IN  IF notna(r) THEN r ELSE Text("Uncategorized")]
      \* line 144
      resolved == [i \in 1..n |-> canon_replace(filled[i])]
      hit == PositionsFrom(match_mask(rule_hit_cat), 1, n)
      miss == PositionsFrom(miss_mask(rule_hit_cat), 1, n)
  IN  [resolved |-> resolved,
       filled |-> filled,
       matches_df |->
         [k \in 1..Len(hit) |->
            LET i == hit[k]
            IN  [source_dir |-> source_cell(df, i, "__source_dir"),
                 source_file |-> source_cell(df, i, "__source_file"),
                 row_index |-> df.rows[i].index,
                 description |-> df.rows[i].cells[desc_col],
                 matched_category |-> rule_hit_cat[i],
                 matched_keyword |-> rule_hit_kw[i],
                 final_category |-> resolved[i]]],
       misses_df |->
         [k \in 1..Len(miss) |->
            LET i == miss[k]
            IN  [source_dir |-> source_cell(df, i, "__source_dir"),
                 source_file |-> source_cell(df, i, "__source_file"),
                 row_index |-> df.rows[i].index,
                 description |-> df.rows[i].cells[desc_col],
                 existing_category |-> existing_clean[i],
                 final_category |-> resolved[i],
                 reason |-> miss_reason(desc_series[i])]],
       summary_df |-> summary_of(rule_hit_cat, Len(hit))]

(***************************************************************************)
(* runner.py: run_pipeline from the normalized combined table on.          *)
(***************************************************************************)
\* df["_signed_amount"] <= 0
expense_mask_nonpositive(signed) ==
  [i \in DOMAIN signed |-> signed[i] # NaN /\ signed[i].m <= 0]

\* df["_signed_amount"] < 0
expense_mask(signed) == [i \in DOMAIN signed |-> IsNeg(signed[i])]

\* .str.replace(r"\s+", " ", regex=True): a run of whitespace becomes one space
collapse_whitespace(s) ==
  str_join([i \in 1..Len(s) |->
              IF Char(s, i) \notin Whitespace THEN Char(s, i)
              ELSE IF i > 1 /\ Char(s, i - 1) \in Whitespace THEN "" ELSE " "],
           1, Len(s))

\* lines 385-386: the remap of the Category column, a missing result filled
\* with the category
category_group(category) ==
  [i \in DOMAIN category |->
     LET g == canon_replace(category[i])
     IN  IF notna(g) THEN g ELSE category[i]]

description_clean(v) == Text(collapse_whitespace(str_strip(astype_str(v))))

(***************************************************************************)
(* csv_reader.py and runner.py: paths, files and load_transactions.  A     *)
(* path is <<directory, file name>>.  A file of the disk is missing, a     *)
(* directory, or a regular file; of a regular file the model keeps what    *)
(* the reader's tests and parsers make of its bytes.                       *)
(***************************************************************************)
dirname(path) == path[1]

basename(path) == path[2]

PathText(path) == dirname(path) \o "/" \o basename(path)

NoFile == [kind |-> "missing"]

Directory == [kind |-> "dir"]

\* cr, lf: whether the bytes hold a carriage return, a line feed;
\* pandas_ok, manual_ok: whether read_with_pandas, read_with_csv_module
\* parse the file; tmp_ok: whether the copy beside it can be written;
\* norm_pandas_ok, norm_manual_ok: whether they parse the normalized copy;
\* rows: the data rows a parse gives
RegularFile(cr, lf, pandas_ok, tmp_ok, norm_pandas_ok, norm_manual_ok, manual_ok, rows) ==
  [kind |-> "file", cr |-> cr, lf |-> lf, pandas_ok |-> pandas_ok, tmp_ok |-> tmp_ok,
   norm_pandas_ok |-> norm_pandas_ok, norm_manual_ok |-> norm_manual_ok,
   manual_ok |-> manual_ok, rows |-> rows]

\* a regular file of which the model keeps the table its parse gives
Holding(file, t) == [table |-> t] @@ file

\* the table a parse of the file at path gives
FrameOf(path, file) ==
  IF "table" \in DOMAIN file THEN file.table ELSE
  [columns |-> {"description", "amount"},
   rows |-> [i \in 1..file.rows |->
               [index |-> i - 1,
                cells |-> ("description" :> Text(PathText(path))) @@ ("amount" :> Text("-1"))]]]

\* the normalized copy written over the file itself
tmp_path_in_place(path) == path

\* tmp_path of line 171
tmp_path_of(path) == <<dirname(path), basename(path) \o ".__norm__.csv">>

\* lines 146-147: the frame with its two metadata columns
with_source(frame, path) ==
  WithColumn(WithColumn(frame, "__source_file", [i \in 1..Len(frame.rows) |-> Text(basename(path))]),
             "__source_dir", [i \in 1..Len(frame.rows) |-> Text(dirname(path))])

RECURSIVE FlatRows(_, _)
FlatRows(frames, k) == IF k = 0 THEN << >> ELSE FlatRows(frames, k - 1) \o frames[k].rows

\* pd.concat(frames, ignore_index=True): the rows one frame after the other
\* under a new RangeIndex, on the union of the columns
concat(frames) ==
  LET columns == UNION {frames[k].columns : k \in 1..Len(frames)}
      flat == FlatRows(frames, Len(frames))
  IN  [columns |-> columns,
       rows |-> [i \in 1..Len(flat) |->
                   [index |-> i - 1,
                    cells |-> [c \in columns |->
                                 IF c \in DOMAIN flat[i].cells THEN flat[i].cells[c]
                                 ELSE Missing]]]]

NoResult == [ok |-> FALSE, error |-> ""]

\* an exception that ends the call: its class and its message
Error(kind, message) == [kind |-> kind, message |-> message]

Returned(path, file, via) == [ok |-> TRUE, via |-> via, frame |-> FrameOf(path, file)]

Raised(message) == [ok |-> FALSE, error |-> message]

NoError == Error("", "")

(***************************************************************************)
(* runner.py: the resolution of the inputs.  The paths handed to           *)
(* run_pipeline are absolute and hold no "~", so that expanduser and       *)
(* abspath leave them as they are; the home directory is Home.             *)
(***************************************************************************)
is_csv_filename(name) == str_endswith(str_lower(str_strip(name)), ".csv")

Home == "/home/u"

Downloads == Home \o "/Downloads"

\* whether the directory d is the directory root or lies below it
IsUnder(d, root) ==
  \/ d = root
  \/ root = "/" /\ d # "" /\ Head(d) = "/"
  \/ Len(d) > Len(root) /\ SubSeq(d, 1, Len(root) + 1) = root \o "/"

\* the directory d, the directories it lies below, and the root
Ancestors(d) ==
  {"/"} \cup {SubSeq(d, 1, k) : k \in {k \in 1..Len(d) : k = Len(d) \/ Char(d, k + 1) = "/"}}

\* os.path.isdir on the disk fs: a directory entry, or a directory that
\* holds an entry
isdir(fs, text) ==
  \/ \E q \in DOMAIN fs : fs[q].kind = "dir" /\ PathText(q) = text
  \/ \E q \in DOMAIN fs : fs[q].kind # "missing" /\ text \in Ancestors(dirname(q))

\* the CSV files os.walk(root) comes by
WalkFiles(fs, root) ==
  {q \in DOMAIN fs : /\ fs[q].kind = "file"
                     /\ IsUnder(dirname(q), root)
                     /\ is_csv_filename(basename(q))}

\* the orders os.walk(root) can list them in: top-down, the files of a
\* directory in any order
WalkOrders(fs, root) ==
  LET found == WalkFiles(fs, root)
      n == Cardinality(found)
  IN  {w \in [1..n -> found] :
         /\ \A i, j \in 1..n : i # j => w[i] # w[j]
         /\ \A i, j \in 1..n :
              i < j => ~(dirname(w[i]) # dirname(w[j]) /\ IsUnder(dirname(w[i]), dirname(w[j])))}

\* lines 43-52 for one path
Expanded(fs, path) ==
  IF isdir(fs, PathText(path)) THEN WalkOrders(fs, PathText(path))
  ELSE IF is_csv_filename(PathText(path)) THEN {<<path>>}
  ELSE {<< >>}

RECURSIVE Collected(_, _, _)
Collected(fs, paths, k) ==
  IF k = 0 THEN {<< >>}
  ELSE {c \o w : c \in Collected(fs, paths, k - 1), w \in Expanded(fs, paths[k])}

\* lines 55-61
RECURSIVE dedup(_, _)
dedup(paths, k) ==
  IF k = 0 THEN << >>
  ELSE IF \E j \in 1..(k - 1) : paths[j] = paths[k] THEN dedup(paths, k - 1)
  ELSE Append(dedup(paths, k - 1), paths[k])

\* the lists expand_inputs(paths) can return
expand_inputs(fs, paths) ==
  {dedup(c, Len(c)) : c \in Collected(fs, paths, Len(paths))}

ensure_raw_inputs(raw, default_filename) ==
  IF raw # << >> THEN raw ELSE << <<Downloads, default_filename>> >>

\* os.path.commonpath of absolute directories
commonpath(dirs) ==
  LET shared == {q \in Ancestors(dirs[1]) : \A i \in 1..Len(dirs) : q \in Ancestors(dirs[i])}
  IN  CHOOSE q \in shared : \A r \in shared : Len(r) <= Len(q)

compute_combined_dir(fs, raw, expanded_files) ==
  IF Len(raw) = 1 /\ isdir(fs, PathText(raw[1])) THEN PathText(raw[1])
  ELSE LET dirs == [i \in 1..Len(expanded_files) |-> dirname(expanded_files[i])]
       IN  IF dirs = << >> THEN Downloads
           ELSE IF isdir(fs, commonpath(dirs)) THEN commonpath(dirs)
           ELSE dirs[1]

(***************************************************************************)
(* normalization.py: the Schema Normalizer.  A cell of a date column is a  *)
(* text, the missing value, or a Timestamp.  The model follows the pandas  *)
(* the code is written for, in which to_datetime parses value by value,    *)
(* and errors="ignore" gives the input back when a value does not parse.   *)
(***************************************************************************)
\* re.sub(r"\s+", "_", s)
underscore_whitespace(s) ==
  str_join([i \in 1..Len(s) |->
              IF Char(s, i) \notin Whitespace THEN Char(s, i)
              ELSE IF i > 1 /\ Char(s, i - 1) \in Whitespace THEN "" ELSE "_"],
           1, Len(s))

\* line 29, for one column name
normalize_header(col) == underscore_whitespace(str_lower(str_strip(col)))

\* normalize_headers(df), for a table no two columns of which get one name
normalize_headers(t) ==
  LET renamed == {normalize_header(c) : c \in t.columns}
      origin == [n \in renamed |-> CHOOSE c \in t.columns : normalize_header(c) = n]
  IN  [columns |-> renamed,
       rows |-> [i \in 1..Len(t.rows) |->
                   [index |-> t.rows[i].index,
                    cells |-> [n \in renamed |-> t.rows[i].cells[origin[n]]]]]]

Timestamp(y, m, d) == [year |-> y, month |-> m, day |-> d]

NaT == [nat |-> TRUE]

IsText(v) == DOMAIN v = {"text"}

IsTimestamp(v) == DOMAIN v = {"year", "month", "day"}

DaysIn(y, m) ==
  IF m \in {4, 6, 9, 11} THEN 30
  ELSE IF m # 2 THEN 31
  ELSE IF y % 4 = 0 /\ (y % 100 # 0 \/ y % 400 = 0) THEN 29
  ELSE 28

\* the date of year, month and day in digits, within the range of a Timestamp
date_of(y, m, d) ==
  IF IsDigits(y \o m \o d)
  THEN LET yy == DigitsValue(y)
           mm == DigitsValue(m)
           dd == DigitsValue(d)
       IN  IF yy \in 1678..2261 /\ mm \in 1..12 /\ dd \in 1..DaysIn(yy, mm)
           THEN Timestamp(yy, mm, dd) ELSE NaT
  ELSE NaT

\* the date a text parses to: YYYY-MM-DD or MM/DD/YYYY, the forms of the
\* texts of the model
parse_date(s) ==
  IF Len(s) = 10 /\ Char(s, 5) = "-" /\ Char(s, 8) = "-"
  THEN date_of(SubSeq(s, 1, 4), SubSeq(s, 6, 7), SubSeq(s, 9, 10))
  ELSE IF Len(s) = 10 /\ Char(s, 3) = "/" /\ Char(s, 6) = "/"
  THEN date_of(SubSeq(s, 7, 10), SubSeq(s, 1, 2), SubSeq(s, 4, 5))
  ELSE NaT

\* pd.to_datetime(..., errors="coerce") of one value
to_datetime(v) ==
  IF v = Missing THEN NaT
  ELSE IF IsTimestamp(v) THEN v
  ELSE parse_date(v.text)

\* n in decimal digits, zero padded to width
RECURSIVE zero_padded(_, _)
zero_padded(n, width) ==
  IF width = 0 THEN ""
  ELSE zero_padded(n \div 10, width - 1) \o Char(DigitChars, (n % 10) + 1)

\* strftime("%Y-%m-%d") of one value of a datetime series
strftime(v) ==
  IF v = NaT THEN Missing
  ELSE Text(zero_padded(v.year, 4) \o "-" \o zero_padded(v.month, 2) \o "-" \o zero_padded(v.day, 2))

\* lines 55-59 for one column: the values that parse become Timestamps;
\* when every value at hand parsed, line 59 formats the column; when one
\* did not, .dt raises, line 60 catches it, and the column stays as line
\* 57 left it
normalize_date_column(series) ==
  LET parsed == [i \in 1..Len(series) |-> to_datetime(series[i])]
      mixed == [i \in 1..Len(series) |-> IF parsed[i] # NaT THEN parsed[i] ELSE series[i]]
  IN  IF \A i \in 1..Len(series) : mixed[i] = Missing \/ IsTimestamp(mixed[i])
      THEN [i \in 1..Len(series) |-> strftime(to_datetime(mixed[i]))]
      ELSE mixed

normalize_date_columns(t, candidates) ==
  [columns |-> t.columns,
   rows |-> [i \in 1..Len(t.rows) |->
               [index |-> t.rows[i].index,
                cells |-> [c \in t.columns |->
                             IF \E k \in 1..Len(candidates) : candidates[k] = c
                             THEN normalize_date_column(Column(t, c))[i]
                             ELSE t.rows[i].cells[c]]]]]

\* df.dropna(how="all")
dropna_all(t) ==
  FilterRows(t, [i \in 1..Len(t.rows) |-> \E c \in t.columns : notna(t.rows[i].cells[c])])

str_startswith(s, prefix) == Len(s) >= Len(prefix) /\ SubSeq(s, 1, Len(prefix)) = prefix

\* str(value) of a cell that is there
value_str(v) ==
  IF IsText(v) THEN v.text
  ELSE zero_padded(v.year, 4) \o "-" \o zero_padded(v.month, 2) \o "-"
         \o zero_padded(v.day, 2) \o " 00:00:00"

drop_table_name_rows(t) ==
  LET out == dropna_all(t)
      present == IF out.rows = << >> THEN {}
                 ELSE {c \in out.columns : notna(out.rows[1].cells[c])}
  IN  IF /\ Len(out.rows) > 0
         /\ Cardinality(present) = 1
         /\ str_startswith(
              str_lower(str_strip(value_str(out.rows[1].cells[CHOOSE c \in present : TRUE]))),
              "table ")
      THEN [columns |-> out.columns, rows |-> Tail(out.rows)]
      ELSE out

\* a numeric cell, of a column pandas read as numbers
Num(n) == [num |-> n]

IsNum(v) == DOMAIN v = {"num"}

\* col.dtype == object: the column holds a value that is neither a number
\* nor missing
is_object(t, c) ==
  \E i \in 1..Len(t.rows) : IsText(t.rows[i].cells[c]) \/ IsTimestamp(t.rows[i].cells[c])

\* col.str.strip() of one value: a text stripped, anything else NaN
str_strip_value(v) == IF IsText(v) THEN Text(str_strip(v.text)) ELSE Missing

\* runner.py line 366
strip_text_columns(t) ==
  [columns |-> t.columns,
   rows |-> [i \in 1..Len(t.rows) |->
               [index |-> t.rows[i].index,
                cells |-> [c \in t.columns |->
                             IF is_object(t, c) THEN str_strip_value(t.rows[i].cells[c])
                             ELSE t.rows[i].cells[c]]]]]

(***************************************************************************)
(* runner.py and outputs.py: the files of step 9 to 11.                    *)
(***************************************************************************)
\* os.path.splitext(name)[0]: the name up to its last dot, leading dots
\* aside
splitext_stem(name) ==
  LET dots == {i \in 2..Len(name) : /\ Char(name, i) = "."
                                   /\ \E j \in 1..(i - 1) : Char(name, j) # "."}
  IN  IF dots = {} THEN name
      ELSE SubSeq(name, 1, (CHOOSE i \in dots : \A j \in dots : j <= i) - 1)

out_root_of(base_dir) == base_dir \o "/expenses_outputs"

\* the directory and the file write_outputs(base_dir, base_name, ...) writes
write_outputs(base_dir, base_name) ==
  {<<base_dir, "expenses_outputs">>,
   <<out_root_of(base_dir), base_name \o "_summary_expenses.csv">>}

\* the files write_debug_outputs(df, out_dir, ...) writes
write_debug_outputs(out_dir) ==
  {<<out_dir, name>> : name \in {"per_source_debug.csv", "category_rule_matches.csv",
                                 "category_rule_misses.csv", "category_rule_summary.csv"}}

\* the keys of df.groupby(["__source_dir", "__source_file"])
source_groups(t) ==
  {<<t.rows[i].cells["__source_dir"].text, t.rows[i].cells["__source_file"].text>> :
     i \in {i \in 1..Len(t.rows) : /\ notna(t.rows[i].cells["__source_dir"])
                                   /\ notna(t.rows[i].cells["__source_file"])}}

(***************************************************************************)
(* State.                                                                  *)
(***************************************************************************)
VARIABLES
  pc,               \* the position reached in run_pipeline (or in the run of coerce_money)
  df_in,            \* the normalized combined table, as run_pipeline line 368 finds it
  df,               \* run_pipeline's df
  cols,             \* desc_col, debit_col, credit_col, amount_col of lines 369-372
  signed_amount,    \* the series build_signed_amount_per_source returned
  cat_series,       \* the resolved categories the Categorizer returned
  resolved_filled,  \* the Categorizer's resolved series before the remap of line 144
  rule_matches_df,  \* the matches table
  rule_misses_df,   \* the misses table
  rule_summary_df,  \* the summary table
  applied,          \* the Schema Normalizer's transformations applied so far
  sniff_result,     \* what sniff_format returned
  csv_in,           \* the rows csv.reader gives for a file, and has_header
  csv_out,          \* what read_with_csv_module returned or raised
  previous_inputs,  \* the input files the run before this one expanded to
  sniff_tried,      \* the encodings sniff_format tried so far
  sniff_outcomes,   \* what reading and sniffing the file gives under each encoding
  raw_paths,        \* the paths run_pipeline was called with
  raw_inputs,       \* run_pipeline's raw_inputs
  combined_dir,     \* run_pipeline's combined_dir
  input_paths,      \* the paths load_transactions was called with
  disk,             \* the file at each path
  path_at,          \* the position of load_transactions' loop in input_paths
  frames,           \* load_transactions' frames
  failed,           \* load_transactions' failed
  df_raw,           \* the table load_transactions returned
  attempts,         \* what read_csv_robust did so far, as <<path, step>>
  written,          \* the paths written by the process
  read_result,      \* what the last call of read_csv_robust returned or raised
  error,            \* the error that ended the run
  compiled_patterns, \* the module's _COMPILED_CATEGORY_PATTERNS
  calls,            \* what each call of the Categorizer so far returned and left compiled
  money_in,         \* a cell handed to coerce_money
  money_out         \* what coerce_money made of it

vars == <<pc, df_in, df, cols, signed_amount, cat_series, resolved_filled,
          rule_matches_df, rule_misses_df, rule_summary_df, compiled_patterns, calls,
          money_in, money_out, input_paths, disk, path_at, frames, failed, df_raw,
          attempts, written, read_result, error, raw_paths, raw_inputs, combined_dir,
          sniff_outcomes,
          sniff_tried,
          sniff_result, csv_in, csv_out, previous_inputs,
          applied>>

(***************************************************************************)
(* Bounds and input pools.                                                 *)
(***************************************************************************)
\* rows of a generated combined table
MaxRows == 2

\* rows of a generated one-file table that has only an amount column
MaxAmountRows == 10

\* chunks a generated description is made of
MaxChunks == 3

\* characters of a generated money text
MaxMoneyLen == 4

\* rows of a generated table of matched and unmatched descriptions
MaxCoverageRows == 10

\* calls of the Categorizer in one process
MaxCalls == 3

\* paths handed to load_transactions
MaxPaths == 2

\* paths handed to run_pipeline
MaxRawPaths == 2

\* rows of a generated raw table
MaxRawRows == 2

\* rows of a generated file of a cleaning run
MaxCleanRows == 2

\* rows of a file of a run of files with their own column names
MaxFileRows == 2

\* rows csv.reader gives for a generated file
MaxCsvRows == 3

\* fields of such a row
MaxCsvWidth == 2

\* transformations of the Schema Normalizer applied in a row
MaxApplications == 3

\* chunks a generated category name is made of
MaxCanonChunks == 3

\* (directory, file name) of the input files, in the order they are loaded
Provenances == << <<"a", "x.csv">>, <<"b", "x.csv">>, <<"a", "y.csv">> >>

\* numeric cells are held as the text str() gives them
DebitPool == {Missing, Text("10")}

AmountPool == {Missing, Text("-5"), Text("3")}

CreditPool == {Missing, Text("7")}

DescChunks == {"COFFEE", " AT ", "STARBUCKS", "WHOLE ", "FOODS", "uber"}

ExampleDescriptions == {"WHOLE FOODS MKT 123", "UBER EATS 42", "METRO MARKET", "eBay"}

DescPool == {Text(""), Text("STARBUCKS"), Text("zzz")}

CategoryPool == {Missing, Text(""), Text("Coffee")}

CategoriesPool == {Missing, Text("Misc")}

MoneyChars == {"$", ",", "(", ")", "-", ".", "1", "a"}

ExampleMoney == {"(1,234.50)", "$45.00", "abc", "($45.00)"}

RECURSIVE TextsOver(_, _)
TextsOver(chunks, k) ==
  IF k = 0 THEN {""}
  ELSE {c \o t : c \in chunks, t \in TextsOver(chunks, k - 1)}

BaseCells(prov, desc) ==
  ("__source_dir" :> Text(prov[1])) @@ ("__source_file" :> Text(prov[2])) @@
  ("description" :> desc)

\* the tables of n rows whose rows hold cells of RowCells; the index is
\* the RangeIndex pd.concat(..., ignore_index=True) gives
TablesOf(columns, RowCells, n) ==
  {[columns |-> columns,
    rows |-> [i \in 1..n |-> [index |-> i - 1, cells |-> f[i]]]] : f \in [1..n -> RowCells]}

\* pd.concat appends the files one after the other: the rows of one file
\* are adjacent, file after file in the order of loading
FileBlocks(t) ==
  LET file(i) == CHOOSE k \in 1..Len(Provenances) :
                   /\ t.rows[i].cells["__source_dir"] = Text(Provenances[k][1])
                   /\ t.rows[i].cells["__source_file"] = Text(Provenances[k][2])
  IN  \A i, j \in 1..Len(t.rows) : i < j => file(i) <= file(j)

AmountColumns == {"__source_dir", "__source_file", "description", "debit", "amount", "credit"}

AmountCells ==
  {BaseCells(p, Text("SHOP")) @@ ("debit" :> d) @@ ("amount" :> a) @@ ("credit" :> c) :
     p \in {Provenances[k] : k \in 1..Len(Provenances)},
     d \in DebitPool, a \in AmountPool, c \in CreditPool}

\* n rows of files with debit / amount / credit columns
AmountTables(n) == {t \in TablesOf(AmountColumns, AmountCells, n) : FileBlocks(t)}

\* one file with only an amount column: neg rows of -1, then pos rows of 1
ThresholdTable(neg, pos) ==
  [columns |-> {"__source_dir", "__source_file", "description", "amount"},
   rows |-> [i \in 1..(neg + pos) |->
               [index |-> i - 1,
                cells |-> BaseCells(<<"a", "y.csv">>, Text("SHOP")) @@
                            ("amount" :> IF i <= neg THEN Text("-1") ELSE Text("1"))]]]

\* the files of n rows of this kind
ThresholdTables(n) == {ThresholdTable(neg, n - neg) : neg \in 0..n}

\* n expense rows of one file with descriptions of texts (stripped, as
\* line 366 leaves them)
DescriptionTables(texts, n) ==
  TablesOf({"__source_dir", "__source_file", "description", "amount"},
           {BaseCells(<<"a", "y.csv">>, Text(str_strip(d))) @@ ("amount" :> Text("-1")) :
              d \in texts},
           n)

FallbackCells ==
  {BaseCells(<<"a", "y.csv">>, d) @@ ("amount" :> Text("-1")) @@
     ("category" :> c) @@ ("categories" :> cs) :
     d \in DescPool, c \in CategoryPool, cs \in CategoriesPool}

\* n expense rows of one file with pre-existing category columns
FallbackTables(n) ==
  TablesOf({"__source_dir", "__source_file", "description", "amount", "category", "categories"},
           FallbackCells, n)

TableOfFiles(columns, cells) ==
  [columns |-> columns, rows |-> [i \in 1..Len(cells) |-> [index |-> i - 1, cells |-> cells[i]]]]

\* two files, one with debit values 10 and 0, one with amount values -5 and 3
TwoFilesExample ==
  TableOfFiles({"__source_dir", "__source_file", "description", "debit", "amount"},
    << BaseCells(<<"a", "x.csv">>, Text("SHOP")) @@ ("debit" :> Text("10")) @@ ("amount" :> Missing),
       BaseCells(<<"a", "x.csv">>, Text("SHOP")) @@ ("debit" :> Text("0")) @@ ("amount" :> Missing),
       BaseCells(<<"a", "y.csv">>, Text("SHOP")) @@ ("debit" :> Missing) @@ ("amount" :> Text("-5")),
       BaseCells(<<"a", "y.csv">>, Text("SHOP")) @@ ("debit" :> Missing) @@ ("amount" :> Text("3")) >>)

\* one file with amount values -50, -20, 30
ThreeAmountsExample ==
  TableOfFiles({"__source_dir", "__source_file", "description", "amount"},
    << BaseCells(<<"a", "y.csv">>, Text("SHOP")) @@ ("amount" :> Text("-50")),
       BaseCells(<<"a", "y.csv">>, Text("SHOP")) @@ ("amount" :> Text("-20")),
       BaseCells(<<"a", "y.csv">>, Text("SHOP")) @@ ("amount" :> Text("30")) >>)

\* expense rows whose description cell is empty in the file (read as
\* missing), holds only whitespace (stripped to "" by line 366), or holds a
\* text no rule matches
BlankDescriptionsExample ==
  TableOfFiles({"__source_dir", "__source_file", "description", "amount"},
    << BaseCells(<<"a", "y.csv">>, Missing) @@ ("amount" :> Text("-1")),
       BaseCells(<<"a", "y.csv">>, Text("")) @@ ("amount" :> Text("-1")),
       BaseCells(<<"a", "y.csv">>, Text("zzz")) @@ ("amount" :> Text("-1")) >>)

\* a table without any description-like column
NoDescriptionExample ==
  TableOfFiles({"__source_dir", "__source_file", "amount"},
    << ("__source_dir" :> Text("a")) @@ ("__source_file" :> Text("y.csv")) @@ ("amount" :> Text("-1")) >>)

\* one file of total expense rows of which the first matched match a rule
CoverageTable(matched, total) ==
  [columns |-> {"__source_dir", "__source_file", "description", "amount"},
   rows |-> [i \in 1..total |->
               [index |-> i - 1,
                cells |-> BaseCells(<<"a", "y.csv">>,
                                    Text(IF i > matched THEN "zzz"
                                         ELSE IF i % 2 = 1 THEN "STARBUCKS" ELSE "NETFLIX"))
                            @@ ("amount" :> Text("-1"))]]]

\* the inputs of the Categorizer's specification
InputTables ==
  \/ \E total \in 0..MaxCoverageRows : \E matched \in 0..total :
       df_in = CoverageTable(matched, total)
  \/ \E k \in 0..MaxChunks : df_in \in DescriptionTables(TextsOver(DescChunks, k), 1)
  \/ \E n \in 1..MaxRows : df_in \in DescriptionTables(ExampleDescriptions, n)
  \/ \E n \in 0..MaxRows : df_in \in FallbackTables(n)
  \/ df_in \in {TwoFilesExample, NoDescriptionExample, BlankDescriptionsExample}

\* the inputs of the Amount Resolver's specification
AmountInputTables ==
  \/ \E n \in 0..MaxRows : df_in \in AmountTables(n)
  \/ \E n \in 1..MaxAmountRows : df_in \in ThresholdTables(n)
  \/ df_in \in {TwoFilesExample, ThreeAmountsExample, NoDescriptionExample}

(***************************************************************************)
(* run_pipeline, lines 368-386, a step at a time.                          *)
(***************************************************************************)
NoCols == [desc_col |-> NoColumn, debit_col |-> NoColumn, credit_col |-> NoColumn, amount_col |-> NoColumn]

Idle ==
  /\ cols = NoCols
  /\ signed_amount = << >>
  /\ cat_series = << >>
  /\ resolved_filled = << >>
  /\ rule_matches_df = << >>
  /\ rule_misses_df = << >>
  /\ rule_summary_df = << >>

\* the variables of run_pipeline's steps 1 to 4
loader_vars == <<raw_paths, raw_inputs, combined_dir, sniff_outcomes, sniff_tried, sniff_result, csv_in, csv_out, previous_inputs, applied,
                 input_paths, disk, path_at, frames, failed, df_raw, attempts, read_result>>

\* nothing loaded, read or written, no error
LoaderIdle ==
  /\ raw_paths = << >>
  /\ raw_inputs = << >>
  /\ combined_dir = ""
  /\ applied = << >>
  /\ sniff_result = << >>
  /\ csv_in = << >>
  /\ csv_out = << >>
  /\ previous_inputs = << >>
  /\ sniff_tried = << >>
  /\ sniff_outcomes = << >>
  /\ input_paths = << >>
  /\ disk = << >>
  /\ path_at = 1
  /\ frames = << >>
  /\ failed = << >>
  /\ df_raw = [columns |-> {}, rows |-> << >>]
  /\ attempts = << >>
  /\ read_result = NoResult
  /\ written = {}
  /\ error = NoError

\* the variables run_pipeline's steps 5 to 7 leave alone
beside_pipeline == <<calls, money_in, money_out, loader_vars, written, error>>

\* the files the rows of the table t came from, in the order of the rows;
\* the first file when the files loaded gave no row
LoadedPaths(t) ==
  LET first == {i \in 1..Len(t.rows) :
                  \A j \in 1..(i - 1) :
                    <<t.rows[j].cells["__source_dir"], t.rows[j].cells["__source_file"]>>
                      # <<t.rows[i].cells["__source_dir"], t.rows[i].cells["__source_file"]>>}
      kept == SelectSeq([i \in 1..Len(t.rows) |-> i], LAMBDA i : i \in first)
  IN  IF kept = << >> THEN <<Provenances[1]>>
      ELSE [k \in 1..Len(kept) |->
              <<t.rows[kept[k]].cells["__source_dir"].text,
                t.rows[kept[k]].cells["__source_file"].text>>]

\* the directory handed to run_pipeline as output_dir
OutputDir == "/out"

\* steps 1 to 4 behind: of what they set, the later steps read input_paths
\* and combined_dir
Loaded ==
  /\ raw_paths = LoadedPaths(df_in)
  /\ raw_inputs = raw_paths
  /\ input_paths = raw_paths
  /\ combined_dir = OutputDir
  /\ applied = << >>
  /\ sniff_result = << >>
  /\ csv_in = << >>
  /\ csv_out = << >>
  /\ previous_inputs = << >>
  /\ sniff_tried = << >>
  /\ sniff_outcomes = << >>
  /\ disk = << >>
  /\ path_at = 1
  /\ frames = << >>
  /\ failed = << >>
  /\ df_raw = [columns |-> {}, rows |-> << >>]
  /\ attempts = << >>
  /\ read_result = NoResult
  /\ written = {}
  /\ error = NoError

\* the pipeline about to start on the table df_in, in a fresh process
Normalized ==
  /\ pc = "normalized"
  /\ df = df_in
  /\ Idle
  /\ compiled_patterns = NoPatterns
  /\ calls = << >>
  /\ money_in = Missing
  /\ money_out = Missing
  /\ Loaded

Init == InputTables /\ Normalized

InitAmounts == AmountInputTables /\ Normalized

\* the ValueError of line 374: its message, and the columns the message
\* lists
SchemaError(columns) ==
  [kind |-> "ValueError",
   message |-> "Could not find a description-like column. Columns: ",
   columns |-> columns]

\* the columns picked, and the run going on without a description column
PickColumnsUnchecked ==
  /\ pc = "normalized"
  /\ cols' = [desc_col |-> pick_col(df.columns, <<"description", "details", "payee", "memo">>),
              debit_col |-> pick_col(df.columns, <<"debit", "withdrawal", "outflow">>),
              credit_col |-> pick_col(df.columns, <<"credit", "deposit", "inflow">>),
              amount_col |-> pick_col(df.columns, <<"amount", "amt", "value", "transaction_amount">>)]
  /\ pc' = "picked"
  /\ UNCHANGED <<df_in, df, signed_amount, cat_series, resolved_filled,
                 rule_matches_df, rule_misses_df, rule_summary_df, compiled_patterns,
                 beside_pipeline>>

\* lines 369-374
PickColumns ==
  /\ pc = "normalized"
  /\ cols' = [desc_col |-> pick_col(df.columns, <<"description", "details", "payee", "memo">>),
              debit_col |-> pick_col(df.columns, <<"debit", "withdrawal", "outflow">>),
              credit_col |-> pick_col(df.columns, <<"credit", "deposit", "inflow">>),
              amount_col |-> pick_col(df.columns, <<"amount", "amt", "value", "transaction_amount">>)]
  /\ IF cols'.desc_col = NoColumn
     THEN /\ error' = SchemaError(df.columns)
          /\ pc' = "schema_error"
     ELSE /\ error' = error
          /\ pc' = "picked"
  /\ UNCHANGED <<df_in, df, signed_amount, cat_series, resolved_filled,
                 rule_matches_df, rule_misses_df, rule_summary_df, compiled_patterns,
                 calls, money_in, money_out, loader_vars, written>>

\* line 377
BuildSignedAmount ==
  /\ pc = "picked"
  /\ signed_amount' = build_signed_amount_per_source(df, cols.debit_col, cols.credit_col, cols.amount_col)
  /\ df' = WithColumn(df, "_signed_amount", signed_amount')
  /\ pc' = "signed"
  /\ UNCHANGED <<df_in, cols, cat_series, resolved_filled,
                 rule_matches_df, rule_misses_df, rule_summary_df, compiled_patterns,
                 beside_pipeline>>

\* lines 378-379
FilterExpenses ==
  /\ pc = "signed"
  /\ \E kept \in {FilterRows(df, expense_mask(Column(df, "_signed_amount")))} :
       df' = WithColumn(kept, "_description_clean",
               [i \in 1..Len(kept.rows) |-> description_clean(kept.rows[i].cells[cols.desc_col])])
  /\ pc' = "filtered"
  /\ UNCHANGED <<df_in, cols, signed_amount, cat_series, resolved_filled,
                 rule_matches_df, rule_misses_df, rule_summary_df, compiled_patterns,
                 beside_pipeline>>

\* lines 382-386
Categorize ==
  /\ pc = "filtered"
  /\ compiled_patterns' = initialize_patterns_once(compiled_patterns)
  /\ \E r \in {detect_or_build_category_with_debug(df, cols.desc_col, compiled_patterns')} :
       /\ cat_series' = r.resolved
       /\ resolved_filled' = r.filled
       /\ rule_matches_df' = r.matches_df
       /\ rule_misses_df' = r.misses_df
       /\ rule_summary_df' = r.summary_df
       /\ df' = WithColumn(WithColumn(WithColumn(df, "Category", r.resolved),
                                      "CategoryOriginal", r.resolved),
                           "CategoryGroup", category_group(r.resolved))
  /\ pc' = "categorized"
  /\ UNCHANGED <<df_in, cols, signed_amount, beside_pipeline>>

\* the values of datetime.now() in the name of a combined run
Timestamps == {"20240101_000000", "20240101_000001"}

\* lines 389-411: the combined summary, the debug files, the summary of
\* each source file
WriteOutputs ==
  /\ pc = "categorized"
  /\ \E stamp \in Timestamps :
       LET base_name == IF Len(input_paths) = 1
                        THEN splitext_stem(basename(input_paths[1]))
                        ELSE "combined_" \o stamp
       IN  written' = written
                        \cup write_outputs(combined_dir, base_name)
                        \cup write_debug_outputs(out_root_of(combined_dir))
                        \cup UNION {write_outputs(g[1], splitext_stem(g[2])) : g \in source_groups(df)}
  /\ pc' = "written"
  /\ UNCHANGED <<df_in, df, cols, signed_amount, cat_series, resolved_filled,
                 rule_matches_df, rule_misses_df, rule_summary_df, compiled_patterns,
                 calls, money_in, money_out, loader_vars, error>>

Next == PickColumns \/ BuildSignedAmount \/ FilterExpenses \/ Categorize \/ WriteOutputs

Spec == Init /\ [][Next]_vars

SpecAmounts == InitAmounts /\ [][Next]_vars

(***************************************************************************)
(* run_pipeline from step 5 on the files of one run, each with the column  *)
(* names of its own bank.  The files are clean (lower-case headers,        *)
(* stripped cells), so that step 4 left them as load_transactions          *)
(* combined them; frames keeps the frame of each file.                     *)
(***************************************************************************)
\* the names a file gives its one money column
MoneyColumnNames == {"debit", "withdrawal", "outflow", "amount"}

MoneyCells == {Missing, Text("10")}

\* the frames read_csv_robust gives for a file of n rows
FileFrames(n) ==
  {[columns |-> {"description", c},
    rows |-> [i \in 1..n |->
                [index |-> i - 1,
                 cells |-> ("description" :> Text("SHOP")) @@ (c :> money[i])]]] :
     c \in MoneyColumnNames, money \in [1..n -> MoneyCells]}

\* the differently named files of a run, in the order of loading
FilePaths == << <<"a", "x.csv">>, <<"a", "y.csv">> >>

\* the frames load_transactions collects in a run of one or two files
FileRuns ==
  UNION {{[k \in 1..count |-> with_source(fs[k], FilePaths[k])] :
            fs \in [1..count -> UNION {FileFrames(n) : n \in 1..MaxFileRows}]} :
         count \in 1..Len(FilePaths)}

InitFiles ==
  /\ frames \in FileRuns
  /\ df_in = concat(frames)
  /\ pc = "normalized"
  /\ df = df_in
  /\ Idle
  /\ compiled_patterns = NoPatterns
  /\ calls = << >>
  /\ money_in = Missing
  /\ money_out = Missing
  /\ raw_paths = SubSeq(FilePaths, 1, Len(frames))
  /\ raw_inputs = raw_paths
  /\ input_paths = raw_paths
  /\ combined_dir = OutputDir
  /\ applied = << >>
  /\ sniff_result = << >>
  /\ csv_in = << >>
  /\ csv_out = << >>
  /\ previous_inputs = << >>
  /\ sniff_tried = << >>
  /\ sniff_outcomes = << >>
  /\ disk = << >>
  /\ path_at = 1
  /\ failed = << >>
  /\ df_raw = [columns |-> {}, rows |-> << >>]
  /\ attempts = << >>
  /\ read_result = NoResult
  /\ written = {}
  /\ error = NoError

SpecFiles == InitFiles /\ [][Next]_vars

(***************************************************************************)
(* load_transactions(input_paths), with read_csv_robust a step at a time.  *)
(***************************************************************************)
\* no table in the pipeline, nothing categorized
PipelineIdle ==
  /\ df_in = [columns |-> {}, rows |-> << >>]
  /\ df = df_in
  /\ Idle
  /\ compiled_patterns = NoPatterns
  /\ calls = << >>
  /\ money_in = Missing
  /\ money_out = Missing

Bool == {TRUE, FALSE}

\* every regular file, as the reader can tell files apart
AllFiles ==
  {RegularFile(cr, lf, pandas_ok, tmp_ok, norm_pandas_ok, norm_manual_ok, manual_ok, 1) :
     cr \in Bool, lf \in Bool, pandas_ok \in Bool, tmp_ok \in Bool,
     norm_pandas_ok \in Bool, norm_manual_ok \in Bool, manual_ok \in Bool}
  \cup {NoFile, Directory}

\* a well-formed file of two rows, a file of old Mac line endings that only
\* parses once normalized, a file only the csv module parses, a file
\* nothing parses, no file, a directory
LoadFiles ==
  {RegularFile(FALSE, TRUE, TRUE, TRUE, TRUE, TRUE, TRUE, 2),
   RegularFile(TRUE, FALSE, FALSE, TRUE, TRUE, TRUE, FALSE, 1),
   RegularFile(FALSE, TRUE, FALSE, TRUE, FALSE, FALSE, TRUE, 1),
   RegularFile(FALSE, TRUE, FALSE, TRUE, FALSE, FALSE, FALSE, 1),
   NoFile, Directory}

PathUniverse == {Provenances[k] : k \in 1..Len(Provenances)}

\* the disk has a file of files at each of the paths ps
DiskOf(ps, files) ==
  /\ input_paths = ps
  /\ disk \in [{ps[i] : i \in 1..Len(ps)} -> files]

\* a call load_transactions(input_paths) on distinct paths
InitLoad ==
  /\ pc = "loading"
  /\ \E n \in 0..MaxPaths : \E ps \in [1..n -> PathUniverse] :
       /\ \A i, j \in 1..n : i # j => ps[i] # ps[j]
       /\ \/ DiskOf(ps, LoadFiles)
          \/ n = 1 /\ DiskOf(ps, AllFiles)
  /\ raw_paths = << >>
  /\ raw_inputs = << >>
  /\ combined_dir = ""
  /\ applied = << >>
  /\ sniff_result = << >>
  /\ csv_in = << >>
  /\ csv_out = << >>
  /\ previous_inputs = << >>
  /\ sniff_tried = << >>
  /\ sniff_outcomes = << >>
  /\ path_at = 1
  /\ frames = << >>
  /\ failed = << >>
  /\ df_raw = [columns |-> {}, rows |-> << >>]
  /\ attempts = << >>
  /\ read_result = NoResult
  /\ written = {}
  /\ error = NoError
  /\ PipelineIdle

\* the path and the file the loop is at
path_now == input_paths[path_at]

file_now == disk[path_now]

\* what a step of the reader leaves alone
reader_frame == <<raw_paths, raw_inputs, combined_dir, sniff_outcomes, sniff_tried, sniff_result, csv_in, csv_out, previous_inputs, applied,
                  input_paths, disk, path_at, frames, failed, df_raw, error,
                  df_in, df, cols, signed_amount, cat_series, resolved_filled,
                  rule_matches_df, rule_misses_df, rule_summary_df, compiled_patterns,
                  calls, money_in, money_out>>

\* runner.py line 144 and csv_reader.py lines 150-153
Validate ==
  /\ pc = "loading"
  /\ path_at <= Len(input_paths)
  /\ attempts' = Append(attempts, <<path_now, "validate">>)
  /\ IF file_now.kind = "missing"
     THEN /\ read_result' = Raised("File not found: " \o PathText(path_now))
          /\ pc' = "raised"
     ELSE IF file_now.kind = "dir"
     THEN /\ read_result' = Raised("Directory passed where a file was expected.")
          /\ pc' = "raised"
     ELSE /\ read_result' = NoResult
          /\ pc' = "sniff"
  /\ UNCHANGED <<written, reader_frame>>

\* line 156
Sniff ==
  /\ pc = "sniff"
  /\ attempts' = Append(attempts, <<path_now, "sniff">>)
  /\ pc' = "fast"
  /\ UNCHANGED <<read_result, written, reader_frame>>

\* lines 159-162
FastParse ==
  /\ pc = "fast"
  /\ attempts' = Append(attempts, <<path_now, "pandas">>)
  /\ IF file_now.pandas_ok
     THEN /\ read_result' = Returned(path_now, file_now, "pandas")
          /\ pc' = "returned"
     ELSE /\ read_result' = NoResult
          /\ pc' = "inspect"
  /\ UNCHANGED <<written, reader_frame>>

\* lines 166-169
Inspect ==
  /\ pc = "inspect"
  /\ attempts' = Append(attempts, <<path_now, "raw">>)
  /\ pc' = IF file_now.cr /\ ~file_now.lf THEN "normalize" ELSE "manual"
  /\ UNCHANGED <<read_result, written, reader_frame>>

\* lines 171-174; a copy that cannot be written raises into line 181
Normalize ==
  /\ pc = "normalize"
  /\ attempts' = Append(attempts, <<path_now, "write_tmp">>)
  /\ IF file_now.tmp_ok
     THEN /\ written' = written \cup {tmp_path_of(path_now)}
          /\ pc' = "fast_norm"
     ELSE /\ written' = written
          /\ pc' = "manual"
  /\ UNCHANGED <<read_result, reader_frame>>

\* lines 175-178
FastParseNorm ==
  /\ pc = "fast_norm"
  /\ attempts' = Append(attempts, <<path_now, "pandas_norm">>)
  /\ IF file_now.norm_pandas_ok
     THEN /\ read_result' = Returned(path_now, file_now, "pandas_norm")
          /\ pc' = "returned"
     ELSE /\ read_result' = NoResult
          /\ pc' = "manual_norm"
  /\ UNCHANGED <<written, reader_frame>>

\* lines 178-182
ManualNorm ==
  /\ pc = "manual_norm"
  /\ attempts' = Append(attempts, <<path_now, "manual_norm">>)
  /\ IF file_now.norm_manual_ok
     THEN /\ read_result' = Returned(path_now, file_now, "manual_norm")
          /\ pc' = "returned"
     ELSE /\ read_result' = NoResult
          /\ pc' = "manual"
  /\ UNCHANGED <<written, reader_frame>>

\* line 185
Manual ==
  /\ pc = "manual"
  /\ attempts' = Append(attempts, <<path_now, "manual">>)
  /\ IF file_now.manual_ok
     THEN /\ read_result' = Returned(path_now, file_now, "manual")
          /\ pc' = "returned"
     ELSE /\ read_result' = Raised("CSV appears to be empty.")
          /\ pc' = "raised"
  /\ UNCHANGED <<written, reader_frame>>

\* what the loader's own steps leave alone
loader_frame == <<raw_paths, raw_inputs, combined_dir, sniff_outcomes, sniff_tried, sniff_result, csv_in, csv_out, previous_inputs, applied,
                  input_paths, disk, attempts, written,
                  df_in, df, cols, signed_amount, cat_series, resolved_filled,
                  rule_matches_df, rule_misses_df, rule_summary_df, compiled_patterns,
                  calls, money_in, money_out>>

\* a read that failed ends the call
RecordReadOrAbort ==
  /\ pc \in {"returned", "raised"}
  /\ IF read_result.ok
     THEN /\ frames' = Append(frames, with_source(read_result.frame, path_now))
          /\ pc' = "loading"
          /\ UNCHANGED <<failed, error>>
     ELSE /\ error' = Error("RuntimeError", read_result.error)
          /\ pc' = "load_error"
          /\ UNCHANGED <<frames, failed>>
  /\ path_at' = path_at + 1
  /\ UNCHANGED <<df_raw, read_result, loader_frame>>

\* runner.py lines 145-152
RecordRead ==
  /\ pc \in {"returned", "raised"}
  /\ IF read_result.ok
     THEN /\ frames' = Append(frames, with_source(read_result.frame, path_now))
          /\ failed' = failed
     ELSE /\ failed' = Append(failed, <<path_now, read_result.error>>)
          /\ frames' = frames
  /\ path_at' = path_at + 1
  /\ pc' = "loading"
  /\ UNCHANGED <<df_raw, read_result, error, loader_frame>>

\* runner.py lines 155-160
FinishLoad ==
  /\ pc = "loading"
  /\ path_at > Len(input_paths)
  /\ IF frames = << >>
     THEN /\ error' = Error("RuntimeError", "No inputs could be read. Check formats/permissions.")
          /\ pc' = "load_error"
          /\ df_raw' = df_raw
     ELSE /\ df_raw' = concat(frames)
          /\ pc' = "loaded"
          /\ error' = error
  /\ UNCHANGED <<path_at, frames, failed, read_result, loader_frame>>

read_csv_robust ==
  \/ Validate \/ Sniff \/ FastParse \/ Inspect
  \/ Normalize \/ FastParseNorm \/ ManualNorm \/ Manual

NextLoad == read_csv_robust \/ RecordRead \/ FinishLoad

SpecLoad == InitLoad /\ [][NextLoad]_vars

(***************************************************************************)
(* run_pipeline(raw_paths), steps 1 to 3: the inputs resolved, the output  *)
(* directory chosen, the files loaded.                                     *)
(***************************************************************************)
\* a file both parsers read, a file of old Mac line endings that the csv
\* module reads once normalized, a file nothing parses
RunFiles ==
  {RegularFile(FALSE, TRUE, TRUE, TRUE, TRUE, TRUE, TRUE, 1),
   RegularFile(TRUE, FALSE, FALSE, TRUE, FALSE, TRUE, FALSE, 1),
   RegularFile(FALSE, TRUE, FALSE, TRUE, FALSE, FALSE, FALSE, 1)}

PlainFile == RegularFile(FALSE, TRUE, TRUE, TRUE, TRUE, TRUE, TRUE, 1)

\* the disks of a run: a directory of CSV files with a subdirectory, a
\* directory without a CSV file, a path that is not there, the Downloads
\* folder
RunDisks ==
  {(<<"/in", "a">> :> Directory) @@ (<<"/in/a", "x.csv">> :> x) @@
   (<<"/in/a", "notes.txt">> :> PlainFile) @@ (<<"/in/a", "sub">> :> Directory) @@
   (<<"/in/a/sub", "y.CSV">> :> y) @@ (<<"/in", "b">> :> Directory) @@
   (<<"/in/b", "readme.md">> :> PlainFile) @@ (<<"/in", "gone.csv">> :> NoFile) @@
   (<<Downloads, "japan_trip.csv">> :> d) @@ (<<Downloads, "ledger.txt">> :> PlainFile) :
     x \in RunFiles, y \in RunFiles, d \in {NoFile, PlainFile}}

\* the paths a run is given
RawPaths ==
  {<<"/in", "a">>, <<"/in", "b">>, <<"/in/a", "x.csv">>, <<"/in/a", "notes.txt">>,
   <<"/in/a", "sub">>, <<"/in", "gone.csv">>}

\* the values of --default-filename
DefaultFilenames == {"japan_trip.csv", "ledger.txt"}

\* the values of output_dir: none, a directory
OutputDirs == {"", "/out"}

InitRun ==
  /\ pc = "start"
  /\ \E n \in 0..MaxRawPaths : raw_paths \in [1..n -> RawPaths]
  /\ disk \in RunDisks
  /\ raw_inputs = << >>
  /\ combined_dir = ""
  /\ applied = << >>
  /\ sniff_result = << >>
  /\ csv_in = << >>
  /\ csv_out = << >>
  /\ previous_inputs = << >>
  /\ sniff_tried = << >>
  /\ sniff_outcomes = << >>
  /\ input_paths = << >>
  /\ path_at = 1
  /\ frames = << >>
  /\ failed = << >>
  /\ df_raw = [columns |-> {}, rows |-> << >>]
  /\ attempts = << >>
  /\ read_result = NoResult
  /\ written = {}
  /\ error = NoError
  /\ PipelineIdle

\* what steps 1 and 2 leave alone
runner_frame == <<raw_paths, sniff_outcomes, sniff_tried, sniff_result, csv_in, csv_out, previous_inputs, applied, disk, path_at, frames, failed, df_raw, attempts, read_result,
                  written, df_in, df, cols, signed_amount, cat_series, resolved_filled,
                  rule_matches_df, rule_misses_df, rule_summary_df, compiled_patterns,
                  calls, money_in, money_out>>

\* the inputs resolved, and the run going on with none of them
ResolveInputsUnchecked ==
  /\ pc = "start"
  /\ \E default_filename \in DefaultFilenames :
       raw_inputs' = ensure_raw_inputs(raw_paths, default_filename)
  /\ \E ps \in expand_inputs(disk, raw_inputs') : input_paths' = ps
  /\ pc' = "choose_dir"
  /\ UNCHANGED <<combined_dir, error, runner_frame>>

\* lines 341-347
ResolveInputs ==
  /\ pc = "start"
  /\ \E default_filename \in DefaultFilenames :
       raw_inputs' = ensure_raw_inputs(raw_paths, default_filename)
  /\ \E ps \in expand_inputs(disk, raw_inputs') : input_paths' = ps
  /\ IF input_paths' = << >>
     THEN /\ error' = Error("FileNotFoundError",
                            "No CSV inputs found. Drop files/folders containing CSVs.")
          /\ pc' = "input_error"
     ELSE /\ error' = error
          /\ pc' = "choose_dir"
  /\ UNCHANGED <<combined_dir, runner_frame>>

\* lines 350-353
ChooseOutputDir ==
  /\ pc = "choose_dir"
  /\ \E output_dir \in OutputDirs, writable \in Bool :
       combined_dir' =
         IF ~writable THEN Downloads
         ELSE IF output_dir # "" THEN output_dir
         ELSE compute_combined_dir(disk, raw_inputs, input_paths)
  /\ pc' = "loading"
  /\ UNCHANGED <<raw_inputs, input_paths, error, runner_frame>>

NextRun == ResolveInputs \/ ChooseOutputDir \/ NextLoad

SpecRun == InitRun /\ [][NextRun]_vars

(***************************************************************************)
(* The Schema Normalizer's transformations applied again and again to one  *)
(* table, each to the table the one before left.                           *)
(***************************************************************************)
DateCandidates == <<"transaction_date", "posted_date", "date">>

\* the names of the first column of a raw table: as exported, normalized
RawDateHeaders == {" Transaction  Date", "date"}

RawDateCells == {Missing, Text("Table 1"), Text("2024-01-05"), Text("01/05/2024"), Text("soon")}

RawAmountCells == {Missing, Text("5")}

RawTables(n) ==
  UNION {TablesOf({h, "Amount"},
                  {(h :> d) @@ ("Amount" :> a) : d \in RawDateCells, a \in RawAmountCells}, n) :
           h \in RawDateHeaders}

\* an export whose first two rows are table names, then a row of data with
\* its date in YYYY-MM-DD form
TwoTableNamesExample ==
  [columns |-> {"date", "amount"},
   rows |-> << [index |-> 0, cells |-> ("date" :> Text("Table 1")) @@ ("amount" :> Missing)],
               [index |-> 1, cells |-> ("date" :> Text("table 2")) @@ ("amount" :> Missing)],
               [index |-> 2, cells |-> ("date" :> Text("2024-01-05")) @@ ("amount" :> Text("5"))] >>]

InitNormalize ==
  /\ pc = "normalizing"
  /\ \/ \E n \in 0..MaxRawRows : df_in \in RawTables(n)
     \/ df_in = TwoTableNamesExample
  /\ df = df_in
  /\ Idle
  /\ compiled_patterns = NoPatterns
  /\ calls = << >>
  /\ money_in = Missing
  /\ money_out = Missing
  /\ LoaderIdle

\* what a transformation leaves alone
normalizer_frame == <<pc, df_in, cols, signed_amount, cat_series, resolved_filled,
                      rule_matches_df, rule_misses_df, rule_summary_df, compiled_patterns,
                      calls, money_in, money_out, raw_paths, raw_inputs, combined_dir,
                      input_paths, disk, path_at, frames, failed, df_raw, attempts,
                      read_result, written, error,
                      sniff_outcomes, sniff_tried, sniff_result, csv_in, csv_out, previous_inputs>>

Application(name, before, after) == [name |-> name, before |-> before, after |-> after]

DropTableNameRows ==
  /\ pc = "normalizing"
  /\ Len(applied) < MaxApplications
  /\ df' = drop_table_name_rows(df)
  /\ applied' = Append(applied, Application("drop_table_name_rows", df, df'))
  /\ UNCHANGED normalizer_frame

NormalizeHeaders ==
  /\ pc = "normalizing"
  /\ Len(applied) < MaxApplications
  /\ df' = normalize_headers(df)
  /\ applied' = Append(applied, Application("normalize_headers", df, df'))
  /\ UNCHANGED normalizer_frame

NormalizeDateColumns ==
  /\ pc = "normalizing"
  /\ Len(applied) < MaxApplications
  /\ df' = normalize_date_columns(df, DateCandidates)
  /\ applied' = Append(applied, Application("normalize_date_columns", df, df'))
  /\ UNCHANGED normalizer_frame

NextNormalize == DropTableNameRows \/ NormalizeHeaders \/ NormalizeDateColumns

SpecNormalize == InitNormalize /\ [][NextNormalize]_vars

(***************************************************************************)
(* run_pipeline, steps 3 and 4: the files loaded, then the combined table  *)
(* cleaned.  read_with_pandas gives a column of numbers where every value  *)
(* of the file's column is a number or empty, and texts otherwise, an      *)
(* empty field being the missing value; read_with_csv_module gives texts   *)
(* only, an empty field being the empty text.                              *)
(***************************************************************************)
\* the rows read_with_pandas can give for a file of columns Description
\* and Amount, the amounts read as texts or as numbers
PandasTables(n) ==
  TablesOf({"Description", "Amount"},
           {("Description" :> d) @@ ("Amount" :> a) :
              d \in {Missing, Text("Table 1"), Text(" STARBUCKS ")},
              a \in {Missing, Text(" $5 ")}}, n)
  \cup
  TablesOf({"Description", "Amount"},
           {("Description" :> d) @@ ("Amount" :> a) :
              d \in {Missing, Text("Table 1"), Text(" STARBUCKS ")},
              a \in {Missing, Num(-5)}}, n)

WellFormed(t) == Holding(RegularFile(FALSE, TRUE, TRUE, TRUE, TRUE, TRUE, TRUE, Len(t.rows)), t)

\* a file with a date column of which one value is no date; a file whose
\* amounts are numbers; a file of old Mac line endings and a file of
\* ragged rows, both read by the csv module; a file nothing parses
OtherFiles ==
  {WellFormed([columns |-> {"Date", "Description", "Amount"},
               rows |-> << [index |-> 0, cells |-> ("Date" :> Text("2024-01-05")) @@
                              ("Description" :> Text("NETFLIX")) @@ ("Amount" :> Text("(5)"))],
                           [index |-> 1, cells |-> ("Date" :> Text("soon")) @@
                              ("Description" :> Text("zzz")) @@ ("Amount" :> Text("(6)"))] >>]),
   WellFormed([columns |-> {"Description", "Amount"},
               rows |-> << [index |-> 0, cells |-> ("Description" :> Text("NETFLIX")) @@
                              ("Amount" :> Num(-7))] >>]),
   Holding(RegularFile(TRUE, FALSE, FALSE, TRUE, FALSE, TRUE, FALSE, 1),
           [columns |-> {"Description", "Amount"},
            rows |-> << [index |-> 0, cells |-> ("Description" :> Text("NETFLIX ")) @@
                           ("Amount" :> Text("-7"))] >>]),
   Holding(RegularFile(FALSE, TRUE, FALSE, TRUE, FALSE, FALSE, TRUE, 1),
           [columns |-> {"Description", "Amount"},
            rows |-> << [index |-> 0, cells |-> ("Description" :> Text("NETFLIX")) @@
                           ("Amount" :> Text(""))] >>]),
   RegularFile(FALSE, TRUE, FALSE, TRUE, FALSE, FALSE, FALSE, 1)}

\* a call load_transactions(input_paths) on one file, or on a file and
\* another after it
InitClean ==
  /\ pc = "loading"
  /\ \E n \in 0..MaxCleanRows : \E t \in PandasTables(n) :
       \/ /\ input_paths = <<Provenances[1]>>
          /\ disk = (Provenances[1] :> WellFormed(t))
       \/ \E other \in OtherFiles :
            /\ input_paths = <<Provenances[1], Provenances[2]>>
            /\ disk = (Provenances[1] :> WellFormed(t)) @@ (Provenances[2] :> other)
  /\ raw_paths = << >>
  /\ raw_inputs = << >>
  /\ combined_dir = ""
  /\ sniff_outcomes = << >>
  /\ sniff_tried = << >>
  /\ sniff_result = << >>
  /\ csv_in = << >>
  /\ csv_out = << >>
  /\ previous_inputs = << >>
  /\ applied = << >>
  /\ path_at = 1
  /\ frames = << >>
  /\ failed = << >>
  /\ df_raw = [columns |-> {}, rows |-> << >>]
  /\ attempts = << >>
  /\ read_result = NoResult
  /\ written = {}
  /\ error = NoError
  /\ PipelineIdle

\* what a step of the cleaning leaves alone
cleaner_frame == <<cols, signed_amount, cat_series, resolved_filled,
                   rule_matches_df, rule_misses_df, rule_summary_df, compiled_patterns,
                   calls, money_in, money_out, raw_paths, raw_inputs, combined_dir,
                   input_paths, disk, path_at, frames, failed, df_raw, attempts,
                   read_result, written, error,
                   sniff_outcomes, sniff_tried, sniff_result, csv_in, csv_out, previous_inputs>>

\* line 363
CleanRows ==
  /\ pc = "loaded"
  /\ df' = drop_table_name_rows(df_raw)
  /\ applied' = Append(applied, Application("drop_table_name_rows", df_raw, df'))
  /\ pc' = "rows_dropped"
  /\ UNCHANGED <<df_in, cleaner_frame>>

\* line 364
CleanHeaders ==
  /\ pc = "rows_dropped"
  /\ df' = normalize_headers(df)
  /\ applied' = Append(applied, Application("normalize_headers", df, df'))
  /\ pc' = "headers_normalized"
  /\ UNCHANGED <<df_in, cleaner_frame>>

\* line 365
CleanDates ==
  /\ pc = "headers_normalized"
  /\ df' = normalize_date_columns(df, DateCandidates)
  /\ applied' = Append(applied, Application("normalize_date_columns", df, df'))
  /\ pc' = "dates_normalized"
  /\ UNCHANGED <<df_in, cleaner_frame>>

\* line 366: the table as step 5 finds it
TrimText ==
  /\ pc = "dates_normalized"
  /\ df' = strip_text_columns(df)
  /\ df_in' = df'
  /\ applied' = Append(applied, Application("strip", df, df'))
  /\ pc' = "normalized"
  /\ UNCHANGED cleaner_frame

NextClean == NextLoad \/ CleanRows \/ CleanHeaders \/ CleanDates \/ TrimText

SpecClean == InitClean /\ [][NextClean]_vars

(***************************************************************************)
(* run_pipeline from its first line to its last, and run_pipeline called   *)
(* once more with the same paths on the disk the first run left: nothing   *)
(* removes the line-ending-normalized copies or the output folders.        *)
(***************************************************************************)
\* the disk with what a run wrote: the expenses_outputs folders, and the
\* CSV files in them and beside the sources
left_on_disk(fs, files) ==
  [q \in DOMAIN fs \cup files |->
     IF q \in files
     THEN IF q[2] = "expenses_outputs" THEN Directory ELSE PlainFile
     ELSE fs[q]]

\* a folder holding one CSV file and a file of notes
RerunDisks ==
  {(<<"/in", "a">> :> Directory) @@ (<<"/in/a", "x.csv">> :> x) @@
   (<<"/in/a", "notes.txt">> :> PlainFile) : x \in RunFiles}

\* the run is given the folder, or the file in it
InitRerun ==
  /\ pc = "start"
  /\ raw_paths \in {<< <<"/in", "a">> >>, << <<"/in/a", "x.csv">> >>}
  /\ disk \in RerunDisks
  /\ raw_inputs = << >>
  /\ combined_dir = ""
  /\ applied = << >>
  /\ sniff_result = << >>
  /\ csv_in = << >>
  /\ csv_out = << >>
  /\ previous_inputs = << >>
  /\ sniff_tried = << >>
  /\ sniff_outcomes = << >>
  /\ input_paths = << >>
  /\ path_at = 1
  /\ frames = << >>
  /\ failed = << >>
  /\ df_raw = [columns |-> {}, rows |-> << >>]
  /\ attempts = << >>
  /\ read_result = NoResult
  /\ written = {}
  /\ error = NoError
  /\ PipelineIdle

\* lines 341-343 of the next run
RunAgain ==
  /\ pc = "written"
  /\ previous_inputs' = input_paths
  /\ disk' = left_on_disk(disk, written)
  /\ \E ps \in expand_inputs(disk', raw_inputs) : input_paths' = ps
  /\ pc' = "run_again"
  /\ UNCHANGED <<raw_paths, raw_inputs, combined_dir, sniff_outcomes, sniff_tried, sniff_result,
                 csv_in, csv_out, applied, path_at, frames, failed, df_raw, attempts,
                 read_result, written, error,
                 df_in, df, cols, signed_amount, cat_series, resolved_filled,
                 rule_matches_df, rule_misses_df, rule_summary_df, compiled_patterns,
                 calls, money_in, money_out>>

NextRerun == NextRun \/ CleanRows \/ CleanHeaders \/ CleanDates \/ TrimText \/ Next \/ RunAgain

SpecRerun == InitRerun /\ [][NextRerun]_vars

(***************************************************************************)
(* sniff_format(path), an encoding at a time.  Of the file the model keeps *)
(* what the three steps of line 34 to 40 make of it under each encoding:   *)
(* the read fails, the delimiter detection fails, the header detection     *)
(* fails, or a delimiter, a quote character and a header flag are found.   *)
(***************************************************************************)
\* the order with UTF-8 before UTF-8-with-BOM
encodings_utf8_first == <<"utf-8", "utf-8-sig", "mac_roman", "latin1">>

\* line 30
encodings_to_try == <<"utf-8-sig", "utf-8", "mac_roman", "latin1">>

\* line 47
sniff_default == [encoding |-> "utf-8-sig", delimiter |-> ",", quotechar |-> "\"", has_header |-> TRUE]

Failed(step) == [ok |-> FALSE, step |-> step]

Detected(delimiter, quotechar, has_header) ==
  [ok |-> TRUE, delimiter |-> delimiter, quotechar |-> quotechar, has_header |-> has_header]

\* what sniffing a sample that was read can give
SniffedOutcomes ==
  {Failed("sniff"), Failed("has_header")} \cup
  {Detected(d, "\"", h) : d \in {",", ";"}, h \in Bool}

\* the files sniff_format can be given: one that cannot be opened fails to
\* read under every encoding; of one that can, the bytes may fail to decode
\* as UTF-8, with or without BOM, and decode under the two 8-bit encodings
SniffProfiles ==
  {[e \in 1..4 |-> Failed("read")]} \cup
  {[e \in 1..4 |-> IF e <= 2 THEN Failed("read") ELSE o[e]] : o \in [3..4 -> SniffedOutcomes]} \cup
  [1..4 -> SniffedOutcomes]

InitSniff ==
  /\ pc = "sniffing"
  /\ raw_paths = << >>
  /\ raw_inputs = << >>
  /\ combined_dir = ""
  /\ sniff_outcomes \in SniffProfiles
  /\ sniff_tried = << >>
  /\ sniff_result = << >>
  /\ csv_in = << >>
  /\ csv_out = << >>
  /\ previous_inputs = << >>
  /\ applied = << >>
  /\ input_paths = << >>
  /\ disk = << >>
  /\ path_at = 1
  /\ frames = << >>
  /\ failed = << >>
  /\ df_raw = [columns |-> {}, rows |-> << >>]
  /\ attempts = << >>
  /\ read_result = NoResult
  /\ written = {}
  /\ error = NoError
  /\ PipelineIdle

\* what a step of sniff_format leaves alone
sniffer_frame == <<sniff_outcomes, csv_in, csv_out, previous_inputs, raw_paths, raw_inputs, combined_dir, applied,
                   input_paths, disk, path_at, frames, failed, df_raw, attempts,
                   read_result, written, error,
                   df_in, df, cols, signed_amount, cat_series, resolved_filled,
                   rule_matches_df, rule_misses_df, rule_summary_df, compiled_patterns,
                   calls, money_in, money_out>>

\* lines 31-44: one pass of the loop
TryEncoding ==
  /\ pc = "sniffing"
  /\ Len(sniff_tried) < Len(encodings_to_try)
  /\ LET encoding == encodings_to_try[Len(sniff_tried) + 1]
         outcome == sniff_outcomes[CHOOSE e \in 1..4 :
                                     <<"utf-8-sig", "utf-8", "mac_roman", "latin1">>[e] = encoding]
     IN  /\ sniff_tried' = Append(sniff_tried, encoding)
         /\ IF outcome.ok
            THEN /\ sniff_result' = <<[encoding |-> encoding, delimiter |-> outcome.delimiter,
                                       quotechar |-> outcome.quotechar,
                                       has_header |-> outcome.has_header]>>
                 /\ pc' = "sniffed"
            ELSE /\ sniff_result' = sniff_result
                 /\ pc' = "sniffing"
  /\ UNCHANGED sniffer_frame

\* line 47
ReturnDefault ==
  /\ pc = "sniffing"
  /\ Len(sniff_tried) = Len(encodings_to_try)
  /\ sniff_result' = <<sniff_default>>
  /\ pc' = "sniffed"
  /\ UNCHANGED <<sniff_tried, sniffer_frame>>

NextSniff == TryEncoding \/ ReturnDefault

SpecSniff == InitSniff /\ [][NextSniff]_vars

(***************************************************************************)
(* read_with_csv_module on the rows csv.reader gives for a file: a row is  *)
(* a sequence of texts, the table returned a header and rows of texts.     *)
(***************************************************************************)
\* n in decimal digits, as the f-string of line 119 writes it
RECURSIVE decimal(_)
decimal(n) ==
  IF n < 10 THEN Char(DigitChars, n + 1)
  ELSE decimal(n \div 10) \o Char(DigitChars, (n % 10) + 1)

\* a row padded and never cut
pad_only(row, width) ==
  IF Len(row) < width THEN row \o [j \in 1..(width - Len(row)) |-> ""] ELSE row

\* line 125, for one row
pad_or_truncate(row, width) ==
  IF Len(row) < width THEN row \o [j \in 1..(width - Len(row)) |-> ""]
  ELSE SubSeq(row, 1, width)

\* line 118
max_len(rows) == CHOOSE n \in {Len(rows[i]) : i \in 1..Len(rows)} :
                   \A i \in 1..Len(rows) : Len(rows[i]) <= n

\* lines 109-126
read_with_csv_module(rows, has_header) ==
  IF rows = << >> THEN Raised("CSV appears to be empty.")
  ELSE LET header == IF has_header THEN rows[1]
                     ELSE [i \in 1..max_len(rows) |-> "col_" \o decimal(i)]
           data == IF has_header THEN Tail(rows) ELSE rows
       IN  [ok |-> TRUE, header |-> header,
            rows |-> [i \in 1..Len(data) |-> pad_or_truncate(data[i], Len(header))]]

CsvFields == {"", "a"}

\* a blank line gives the row of no fields
CsvRows == UNION {[1..w -> CsvFields] : w \in 0..MaxCsvWidth}

InitManual ==
  /\ pc = "manual_parse"
  /\ \E n \in 0..MaxCsvRows : \E rows \in [1..n -> CsvRows] : \E has_header \in Bool :
       csv_in = [rows |-> rows, has_header |-> has_header]
  /\ csv_out = << >>
  /\ previous_inputs = << >>
  /\ raw_paths = << >>
  /\ raw_inputs = << >>
  /\ combined_dir = ""
  /\ sniff_outcomes = << >>
  /\ sniff_tried = << >>
  /\ sniff_result = << >>
  /\ applied = << >>
  /\ input_paths = << >>
  /\ disk = << >>
  /\ path_at = 1
  /\ frames = << >>
  /\ failed = << >>
  /\ df_raw = [columns |-> {}, rows |-> << >>]
  /\ attempts = << >>
  /\ read_result = NoResult
  /\ written = {}
  /\ error = NoError
  /\ PipelineIdle

\* what read_with_csv_module leaves alone
manual_frame == <<csv_in, previous_inputs, sniff_outcomes, sniff_tried, sniff_result, raw_paths, raw_inputs,
                  combined_dir, applied, input_paths, disk, path_at, frames, failed, df_raw,
                  attempts, read_result, written, error,
                  df_in, df, cols, signed_amount, cat_series, resolved_filled,
                  rule_matches_df, rule_misses_df, rule_summary_df, compiled_patterns,
                  calls, money_in, money_out>>

\* lines 109-126
ManualParse ==
  /\ pc = "manual_parse"
  /\ csv_out' = <<read_with_csv_module(csv_in.rows, csv_in.has_header)>>
  /\ pc' = "manual_parsed"
  /\ UNCHANGED manual_frame

NextManual == ManualParse

SpecManual == InitManual /\ [][NextManual]_vars

(***************************************************************************)
(* The Categorizer called again and again in one process, on one table.    *)
(***************************************************************************)
CallTables ==
  \/ \E n \in 0..MaxRows : df_in \in DescriptionTables(ExampleDescriptions, n)
  \/ \E total \in 1..MaxRows : \E matched \in 0..total : df_in = CoverageTable(matched, total)
  \/ df_in \in FallbackTables(1)
  \/ df_in = BlankDescriptionsExample

InitCalls ==
  /\ CallTables
  /\ pc = "calling"
  /\ df = df_in
  /\ cols = [NoCols EXCEPT !.desc_col = "description"]
  /\ signed_amount = << >>
  /\ cat_series = << >>
  /\ resolved_filled = << >>
  /\ rule_matches_df = << >>
  /\ rule_misses_df = << >>
  /\ rule_summary_df = << >>
  /\ compiled_patterns = NoPatterns
  /\ calls = << >>
  /\ money_in = Missing
  /\ money_out = Missing
  /\ LoaderIdle

\* one call detect_or_build_category_with_debug(df, desc_col): line 102
\* first, then the rest on the patterns the module then holds
CallCategorizer ==
  /\ pc = "calling"
  /\ Len(calls) < MaxCalls
  /\ compiled_patterns' = initialize_patterns_once(compiled_patterns)
  /\ \E r \in {detect_or_build_category_with_debug(df, cols.desc_col, compiled_patterns')} :
       /\ cat_series' = r.resolved
       /\ resolved_filled' = r.filled
       /\ rule_matches_df' = r.matches_df
       /\ rule_misses_df' = r.misses_df
       /\ rule_summary_df' = r.summary_df
       /\ calls' = Append(calls, [resolved |-> r.resolved,
                                  matches_df |-> r.matches_df,
                                  misses_df |-> r.misses_df,
                                  summary_df |-> r.summary_df,
                                  compiled |-> compiled_patterns'])
  /\ UNCHANGED <<pc, df_in, df, cols, signed_amount, money_in, money_out,
                 loader_vars, written, error>>

NextCalls == CallCategorizer

SpecCalls == InitCalls /\ [][NextCalls]_vars

(***************************************************************************)
(* The canonical remap on its own, on generated category names: line 144   *)
(* of the Categorizer, then lines 385-386 of run_pipeline on its result.   *)
(***************************************************************************)
CanonChunks == {"dining", " ", "_", "Out", "Gas", "/", "Automotive", "coffee"}

ExampleCategories ==
  {CATEGORY_RULES[c].category : c \in 1..Len(CATEGORY_RULES)} \cup
  {CATEGORY_CANON[k].value : k \in 1..Len(CATEGORY_CANON)} \cup
  {"Uncategorized", "Misc", "Dining Out", "DINING_OUT", "Food & Dining", "food  & dining",
   "Coffee Shop", "Gas / Automotive", "gas_/ _automotive", "Other Travel", "OTHERTRAVEL",
   "pharmacy", "Merchandise", "Lodgings", "Groceries", "grocerieS"}

\* a one-row table whose category was resolved to c, before the remap
ResolvedTo(c) ==
  /\ resolved_filled = <<Text(c)>>
  /\ df_in = TableOfFiles({"__source_dir", "__source_file", "description", "amount"},
                << BaseCells(<<"a", "y.csv">>, Text("SHOP")) @@ ("amount" :> Text("-1")) >>)

\* a resolved category is a rule's category, "Uncategorized" or a
\* pre-existing value, which lines 114-120 have stripped
InitCanon ==
  /\ pc = "resolved"
  /\ \/ \E k \in 0..MaxCanonChunks : \E t \in TextsOver(CanonChunks, k) :
          str_strip(t) # "" /\ ResolvedTo(str_strip(t))
     \/ \E t \in ExampleCategories : ResolvedTo(t)
  /\ df = df_in
  /\ cols = [NoCols EXCEPT !.desc_col = "description"]
  /\ signed_amount = << >>
  /\ cat_series = << >>
  /\ rule_matches_df = << >>
  /\ rule_misses_df = << >>
  /\ rule_summary_df = << >>
  /\ compiled_patterns = NoPatterns
  /\ calls = << >>
  /\ money_in = Missing
  /\ money_out = Missing
  /\ LoaderIdle

\* categorizer.py line 144
Remap ==
  /\ pc = "resolved"
  /\ cat_series' = [i \in 1..Len(resolved_filled) |-> canon_replace(resolved_filled[i])]
  /\ pc' = "remapped"
  /\ UNCHANGED <<df_in, df, cols, signed_amount, resolved_filled, rule_matches_df,
                 rule_misses_df, rule_summary_df, compiled_patterns, beside_pipeline>>

\* runner.py lines 383-386
Regroup ==
  /\ pc = "remapped"
  /\ df' = WithColumn(WithColumn(WithColumn(df, "Category", cat_series),
                                 "CategoryOriginal", cat_series),
                      "CategoryGroup", category_group(cat_series))
  /\ pc' = "grouped"
  /\ UNCHANGED <<df_in, cols, signed_amount, cat_series, resolved_filled, rule_matches_df,
                 rule_misses_df, rule_summary_df, compiled_patterns, beside_pipeline>>

NextCanon == Remap \/ Regroup

SpecCanon == InitCanon /\ [][NextCanon]_vars

(***************************************************************************)
(* coerce_money on its own, on generated texts.                            *)
(***************************************************************************)
InitMoney ==
  /\ pc = "money"
  /\ \/ \E k \in 0..MaxMoneyLen : \E t \in TextsOver(MoneyChars, k) : money_in = Text(t)
     \/ \E t \in ExampleMoney : money_in = Text(t)
     \/ money_in = Missing
  /\ money_out = Missing
  /\ df_in = [columns |-> {}, rows |-> << >>]
  /\ df = df_in
  /\ Idle
  /\ compiled_patterns = NoPatterns
  /\ calls = << >>
  /\ LoaderIdle

CoerceMoney ==
  /\ pc = "money"
  /\ money_out' = coerce_money(<<money_in>>)[1]
  /\ pc' = "money_done"
  /\ UNCHANGED <<df_in, df, cols, signed_amount, cat_series, resolved_filled,
                 rule_matches_df, rule_misses_df, rule_summary_df, compiled_patterns,
                 calls, money_in, loader_vars, written, error>>

NextMoney == CoerceMoney

SpecMoney == InitMoney /\ [][NextMoney]_vars

(***************************************************************************)
(* Vocabulary of the properties, stated from the rule set alone.           *)
(***************************************************************************)
\* the keywords of the rule set, case folded
FoldedRules ==
  [c \in 1..Len(CATEGORY_RULES) |->
     [k \in 1..Len(CATEGORY_RULES[c].keywords) |-> str_upper(CATEGORY_RULES[c].keywords[k])]]

\* the categories that have a keyword occurring, whatever its case, in the text
MatchingCategories(text) ==
  LET subs == Substrings(str_upper(text))
  IN  {c \in 1..Len(CATEGORY_RULES) :
         \E k \in 1..Len(FoldedRules[c]) : FoldedRules[c][k] \in subs}

\* the first category of the rule set with an occurring keyword
FirstMatchingCategory(text) ==
  LET cs == MatchingCategories(text)
  IN  IF cs = {} THEN Missing ELSE Text(CATEGORY_RULES[Min(cs)].category)

\* the description text the Categorizer sees for the row at position i of df
DescriptionText(i) == astype_str(df.rows[i].cells[cols.desc_col])

\* the rows of the matches table that speak of the row at position i of df
MatchesOf(i) ==
  {k \in 1..Len(rule_matches_df) : rule_matches_df[k].row_index = df.rows[i].index}

MissesOf(i) ==
  {k \in 1..Len(rule_misses_df) : rule_misses_df[k].row_index = df.rows[i].index}

\* the rule-match category of the row at position i of df
RuleCategory(i) ==
  IF MatchesOf(i) = {} THEN Missing
  ELSE rule_matches_df[CHOOSE k \in MatchesOf(i) : TRUE].matched_category

(***************************************************************************)
(* C1.  Category precedence: for every non-blank description the           *)
(* rule-match category is the first category, in the rule set's order,     *)
(* that has a keyword occurring case-insensitively in the description (and *)
(* there is no rule match when no category has one).                       *)
(***************************************************************************)
C1_CategoryPrecedence ==
  pc = "categorized" =>
    \A i \in 1..Len(df.rows) :
      str_strip(DescriptionText(i)) # "" =>
        RuleCategory(i) = FirstMatchingCategory(DescriptionText(i))

\* a description with UBER EATS, which Dining and Transit both match, went
\* to Dining, and one with METRO, which Groceries and Transit both match,
\* went to Groceries, in one pass
C1_Witness ==
  /\ pc = "categorized"
  /\ \E k \in 1..Len(rule_matches_df) :
       /\ rule_matches_df[k].description = Text("UBER EATS 42")
       /\ rule_matches_df[k].matched_category = Text("Dining")
       /\ Cardinality(MatchingCategories("UBER EATS 42")) >= 2
  /\ \E k \in 1..Len(rule_matches_df) :
       /\ rule_matches_df[k].description = Text("METRO MARKET")
       /\ rule_matches_df[k].matched_category = Text("Groceries")
       /\ Cardinality(MatchingCategories("METRO MARKET")) >= 2

(***************************************************************************)
(* C2.  Keyword precedence: the matched keyword recorded for a row is the  *)
(* first keyword of the winning category, in longest-first order, that     *)
(* occurs in the uppercased description, wherever the keywords occur.      *)
(***************************************************************************)
C2_LongestKeywordRecorded ==
  pc = "categorized" =>
    \A k \in 1..Len(rule_matches_df) :
      LET m == rule_matches_df[k]
          subs == Substrings(str_upper(astype_str(m.description)))
          c == CHOOSE c \in 1..Len(CATEGORY_RULES) :
                 Text(CATEGORY_RULES[c].category) = m.matched_category
          longest_first == sorted_by_len_desc(CATEGORY_RULES[c].keywords)
          occurring == {j \in 1..Len(longest_first) : str_upper(longest_first[j]) \in subs}
      IN  /\ occurring # {}
          /\ m.matched_keyword = Text(str_upper(longest_first[Min(occurring)]))

(***************************************************************************)
(* C3.  "WHOLE FOODS MKT 123" is categorized Groceries, with the keyword   *)
(* "WHOLE FOODS".                                                          *)
(***************************************************************************)
C3_WholeFoodsIsGroceries ==
  pc = "categorized" =>
    \A i \in 1..Len(df.rows) :
      df.rows[i].cells[cols.desc_col] = Text("WHOLE FOODS MKT 123") =>
        \E k \in MatchesOf(i) :
          /\ rule_matches_df[k].matched_category = Text("Groceries")
          /\ rule_matches_df[k].matched_keyword = Text("WHOLE FOODS")

(***************************************************************************)
(* C4.  Resolution priority, as documented: without a rule match the label *)
(* resolved before the canonical remap is the first non-missing, non-blank *)
(* value among category, categories, cat, type in that order, and          *)
(* "Uncategorized" only when no column holds such a value; a rule match    *)
(* overrides a pre-existing value.                                         *)
(***************************************************************************)
\* the cells of the candidate columns of the row at position i of df, in
\* priority order, that satisfy Good
CandidatePositions(i, Good(_)) ==
  {k \in 1..Len(ExistingCandidates) :
     /\ ExistingCandidates[k] \in df.columns
     /\ Good(df.rows[i].cells[ExistingCandidates[k]])}

CandidateCell(i, k) == df.rows[i].cells[ExistingCandidates[k]]

NonBlank(v) == notna(v) /\ str_strip(v.text) # ""

C4_FirstNonBlankFallback ==
  pc = "categorized" =>
    \A i \in 1..Len(df.rows) :
      LET good == CandidatePositions(i, NonBlank)
      IN  resolved_filled[i] =
            IF RuleCategory(i) # Missing THEN RuleCategory(i)
            ELSE IF good # {} THEN Text(str_strip(CandidateCell(i, Min(good)).text))
            ELSE Text("Uncategorized")

(***************************************************************************)
(* C4, as the code has it: without a rule match the label resolved before  *)
(* the canonical remap is the stripped text of the first non-missing value *)
(* among category, categories, cat, type in that order, unless that value  *)
(* is blank; it is "Uncategorized" when every candidate is missing and     *)
(* also when the first non-missing value is blank, whatever the later      *)
(* columns hold; a rule match overrides a pre-existing value.              *)
(***************************************************************************)
C4_FirstNonMissingFallback ==
  pc = "categorized" =>
    \A i \in 1..Len(df.rows) :
      LET present == CandidatePositions(i, notna)
      IN  resolved_filled[i] =
            IF RuleCategory(i) # Missing THEN RuleCategory(i)
            ELSE IF present # {} /\ NonBlank(CandidateCell(i, Min(present)))
            THEN Text(str_strip(CandidateCell(i, Min(present)).text))
            ELSE Text("Uncategorized")

\* a row without a rule match whose two candidate columns hold different
\* values took the first, and a row with a rule match and a pre-existing
\* value took the rule's category
C4_Witness ==
  /\ pc = "categorized"
  /\ \E i \in 1..Len(df.rows) :
       /\ RuleCategory(i) = Missing
       /\ "category" \in df.columns /\ "categories" \in df.columns
       /\ df.rows[i].cells["category"] = Text("Coffee")
       /\ df.rows[i].cells["categories"] = Text("Misc")
       /\ resolved_filled[i] = Text("Coffee")
  /\ \E i \in 1..Len(df.rows) :
       /\ RuleCategory(i) # Missing
       /\ "categories" \in df.columns
       /\ df.rows[i].cells["categories"] = Text("Misc")
       /\ resolved_filled[i] = RuleCategory(i)

(***************************************************************************)
(* The Amount Resolver's groups and inputs, read from the state.           *)
(***************************************************************************)
Resolved == pc \in {"signed", "filtered", "categorized"}

\* the groups the resolver forms: the positions of df_in under one file name
SourceGroups ==
  {{i \in 1..Len(df_in.rows) : group_key(df_in, i) = group_key(df_in, j)} :
     j \in 1..Len(df_in.rows)}

\* the column was picked and has a non-missing value on a position of g
HasValues(g, col) ==
  /\ col # NoColumn
  /\ \E i \in g : notna(df_in.rows[i].cells[col])

\* the coerced amount of the row at position i of df_in
Amount(i) == coerce_money_value(df_in.rows[i].cells[cols.amount_col])

KeepNegatives(g) == [i \in g |-> IF IsNeg(Amount(i)) THEN Amount(i) ELSE Dec(0)]

FlipPositives(g) == [i \in g |-> IF IsPos(Amount(i)) THEN Neg(Amount(i)) ELSE Dec(0)]

SignedOn(g) == [i \in g |-> signed_amount[i]]

(***************************************************************************)
(* C5.  Sign threshold: for a group resolved through its amount column,    *)
(* with N negative and P positive coerced amounts, the negatives are kept  *)
(* and the positives set to 0 exactly when N >= 1 and 5*N >= P; otherwise  *)
(* the positives are negated and the negatives set to 0.                   *)
(***************************************************************************)
C5_SignThreshold ==
  Resolved =>
    \A g \in SourceGroups :
      (~HasValues(g, cols.debit_col) /\ HasValues(g, cols.amount_col)) =>
        LET N == Cardinality({i \in g : IsNeg(Amount(i))})
            P == Cardinality({i \in g : IsPos(Amount(i))})
        IN  SignedOn(g) = IF N >= 1 /\ 5 * N >= P THEN KeepNegatives(g) ELSE FlipPositives(g)

(***************************************************************************)
(* C6.  Groups by provenance: the signed amounts of the rows of one        *)
(* (source directory, file name) pair are those the resolver gives for     *)
(* the rows of that pair alone, whatever rows other pairs contribute.      *)
(***************************************************************************)
ProvenanceOf(i) ==
  <<df_in.rows[i].cells["__source_dir"], df_in.rows[i].cells["__source_file"]>>

C6_GroupsByProvenance ==
  Resolved =>
    \A j \in 1..Len(df_in.rows) :
      LET n == Len(df_in.rows)
          own == [i \in 1..n |-> ProvenanceOf(i) = ProvenanceOf(j)]
          at == PositionsFrom(own, 1, n)
          alone == build_signed_amount_per_source(FilterRows(df_in, own),
                     cols.debit_col, cols.credit_col, cols.amount_col)
      IN  \A k \in 1..Len(at) : signed_amount[at[k]] = alone[k]

(***************************************************************************)
(* C7.  Policy priority per source-file group: debit > amount > credit >   *)
(* none.  A group with a non-missing debit gets -(debit), a missing debit  *)
(* counted as 0, even when its amount column has values; else a group with *)
(* a non-missing amount gets its amounts under one of the two sign         *)
(* conventions; else a group with a non-missing credit gets 0 on every     *)
(* row; else every row gets a missing value.                               *)
(***************************************************************************)
C7_PolicyPriority ==
  Resolved =>
    \A g \in SourceGroups :
      IF HasValues(g, cols.debit_col)
      THEN \A i \in g :
             LET v == df_in.rows[i].cells[cols.debit_col]
             IN  signed_amount[i] = IF notna(v) THEN Neg(coerce_money_value(v)) ELSE Dec(0)
      ELSE IF HasValues(g, cols.amount_col)
      THEN SignedOn(g) \in {KeepNegatives(g), FlipPositives(g)}
      ELSE IF HasValues(g, cols.credit_col)
      THEN \A i \in g : signed_amount[i] = Dec(0)
      ELSE \A i \in g : signed_amount[i] = NaN

\* a row with a debit and an amount took the negated debit, in a table that
\* also has a group of only credits
C7_Witness ==
  /\ Resolved
  /\ \E i \in 1..Len(df_in.rows) :
       /\ cols.debit_col # NoColumn /\ cols.amount_col # NoColumn
       /\ df_in.rows[i].cells[cols.debit_col] = Text("10")
       /\ df_in.rows[i].cells[cols.amount_col] = Text("3")
       /\ signed_amount[i] = Dec(-10)
  /\ \E g \in SourceGroups :
       /\ ~HasValues(g, cols.debit_col) /\ ~HasValues(g, cols.amount_col)
       /\ HasValues(g, cols.credit_col)
       /\ \A i \in g : signed_amount[i] = Dec(0)

(***************************************************************************)
(* C8.  Expense filter: the table that goes on to the Categorizer and to   *)
(* the outputs holds exactly the rows whose signed amount is below zero,   *)
(* once each and in their order; the two files with debits 10, 0 and       *)
(* amounts -5, 3 leave the two rows -10 and -5.                            *)
(***************************************************************************)
NegativePositions == {i \in 1..Len(df_in.rows) : IsNeg(signed_amount[i])}

C8_ExpenseFilter ==
  pc \in {"filtered", "categorized"} =>
    /\ {df.rows[k].index : k \in 1..Len(df.rows)} = {df_in.rows[i].index : i \in NegativePositions}
    /\ Len(df.rows) = Cardinality(NegativePositions)
    /\ \A k \in 1..Len(df.rows) :
         /\ IsNeg(df.rows[k].cells["_signed_amount"])
         /\ \E i \in NegativePositions :
              /\ df.rows[k].index = df_in.rows[i].index
              /\ df.rows[k].cells["_signed_amount"] = signed_amount[i]
    /\ \A k, l \in 1..Len(df.rows) : k < l => df.rows[k].index < df.rows[l].index
    /\ pc = "categorized" =>
         {rule_matches_df[k].row_index : k \in 1..Len(rule_matches_df)}
           \cup {rule_misses_df[k].row_index : k \in 1..Len(rule_misses_df)}
         = {df_in.rows[i].index : i \in NegativePositions}
    /\ df_in = TwoFilesExample =>
         [k \in 1..Len(df.rows) |-> df.rows[k].cells["_signed_amount"]] = <<Dec(-10), Dec(-5)>>

\* the two files of the example were filtered, and two rows remain of four
C8_Witness ==
  /\ pc = "filtered"
  /\ df_in = TwoFilesExample
  /\ signed_amount = <<Dec(-10), Dec(0), Dec(-5), Dec(0)>>
  /\ Len(df.rows) = 2

(***************************************************************************)
(* C9.  Currency coercion, as documented: a currency symbol is stripped    *)
(* where it leads the value (the text, or the inside of the parentheses),  *)
(* the thousands separators are removed, a fully parenthesized value turns *)
(* into its negative, the rest is parsed as a number and every text that   *)
(* does not parse gives a missing value.                                   *)
(***************************************************************************)
RECURSIVE WithoutChars(_, _)
WithoutChars(s, chars) ==
  IF Len(s) <= 1 THEN (IF s \in chars THEN "" ELSE s)
  ELSE WithoutChars(SubSeq(s, 1, Len(s) \div 2), chars)
         \o WithoutChars(SubSeq(s, Len(s) \div 2 + 1, Len(s)), chars)

FullyParenthesized(s) == Len(s) >= 2 /\ Head(s) = "(" /\ SubSeq(s, Len(s), Len(s)) = ")"

Inside(s) == SubSeq(s, 2, Len(s) - 1)

WithoutLeadingSymbol(s) == IF s # "" /\ Head(s) = "$" THEN Tail(s) ELSE s

LeadingSymbolCoerce(v) ==
  LET s == WithoutChars(str_strip(astype_str(v)), {","})
  IN  IF FullyParenthesized(s)
      THEN to_numeric("-" \o WithoutLeadingSymbol(Inside(s)))
      ELSE to_numeric(WithoutLeadingSymbol(s))

C9_LeadingSymbolStripped ==
  pc = "money_done" => money_out = LeadingSymbolCoerce(money_in)

(***************************************************************************)
(* C9, as the code has it: every "$" and every comma is removed wherever   *)
(* it stands in the stripped text, a text that is then fully parenthesized *)
(* is turned into the negative of its inside, the rest is parsed as a      *)
(* number and every text that does not parse gives a missing value;        *)
(* "(1,234.50)" gives -1234.50, "$45.00" gives 45.00, "abc" gives a        *)
(* missing value and "($45.00)" gives -45.00.                              *)
(***************************************************************************)
EverySymbolCoerce(v) ==
  LET s == WithoutChars(str_strip(astype_str(v)), {"$", ","})
  IN  IF FullyParenthesized(s) THEN to_numeric("-" \o Inside(s)) ELSE to_numeric(s)

C9_CoerceMoney ==
  pc = "money_done" =>
    /\ money_out = EverySymbolCoerce(money_in)
    /\ money_in = Text("(1,234.50)") => money_out = [m |-> -12345, e |-> 1]
    /\ money_in = Text("$45.00") => money_out = Dec(45)
    /\ money_in = Text("abc") => money_out = NaN
    /\ money_in = Text("($45.00)") => money_out = Dec(-45)
    /\ (notna(money_in) /\ \E i \in 1..Len(money_in.text) : Char(money_in.text, i) = "a")
         => money_out = NaN

\* the parenthesized value with a currency symbol was coerced to -45
C9_Witness ==
  /\ pc = "money_done"
  /\ money_in = Text("($45.00)")
  /\ money_out = Dec(-45)

(***************************************************************************)
(* C10.  The diagnostics partition the input: after a categorization pass  *)
(* every row handed to the Categorizer is, by its row_index, in exactly    *)
(* one of the matches and the misses tables, in the matches table exactly  *)
(* when a keyword rule matches its description, and the two tables have    *)
(* together as many rows as the input.                                     *)
(***************************************************************************)
C10_DiagnosticsPartition ==
  pc = "categorized" =>
    /\ \A i \in 1..Len(df.rows) :
         /\ Cardinality(MatchesOf(i)) + Cardinality(MissesOf(i)) = 1
         /\ MatchesOf(i) # {} <=>
              /\ str_strip(DescriptionText(i)) # ""
              /\ MatchingCategories(DescriptionText(i)) # {}
    /\ \A k \in 1..Len(rule_matches_df) :
         \E i \in 1..Len(df.rows) : rule_matches_df[k].row_index = df.rows[i].index
    /\ \A k \in 1..Len(rule_misses_df) :
         \E i \in 1..Len(df.rows) : rule_misses_df[k].row_index = df.rows[i].index
    /\ Len(rule_matches_df) + Len(rule_misses_df) = Len(df.rows)

\* a pass over two rows, one matched and one missed
C10_Witness ==
  /\ pc = "categorized"
  /\ Len(df.rows) = 2
  /\ Len(rule_matches_df) = 1
  /\ Len(rule_misses_df) = 1

(***************************************************************************)
(* C11.  Summary table: it has one row for every category of the rule set, *)
(* a category without a hit listed with rule_hits = 0; rule_hits of a      *)
(* category is the number of rows the rules matched to it and the          *)
(* rule_hits sum to the number of rule-matched rows; total_rows is the     *)
(* number of input rows; rule_coverage_pct is matched rows / total rows *  *)
(* 100 rounded to two decimals, 70.0 for 7 matches out of 10 rows and 0.0  *)
(* without input rows.                                                     *)
(***************************************************************************)
RECURSIVE SumOfHits(_, _)
SumOfHits(summary, k) ==
  IF k = 0 THEN 0 ELSE SumOfHits(summary, k - 1) + summary[k].rule_hits

\* the decimal x counted in hundredths (x has at most two decimals)
Hundredths(x) == IF x.e = 0 THEN 100 * x.m ELSE IF x.e = 1 THEN 10 * x.m ELSE x.m

Abs(n) == IF n < 0 THEN 0 - n ELSE n

C11_SummaryTable ==
  pc = "categorized" =>
    LET total == Len(df.rows)
        matched == Len(rule_matches_df)
    IN  /\ Len(rule_summary_df) = Len(CATEGORY_RULES)
        /\ \A c \in 1..Len(CATEGORY_RULES) :
             \E k \in 1..Len(rule_summary_df) :
               /\ rule_summary_df[k].category = CATEGORY_RULES[c].category
               /\ rule_summary_df[k].rule_hits =
                    Cardinality({j \in 1..matched :
                       rule_matches_df[j].matched_category = Text(CATEGORY_RULES[c].category)})
        /\ SumOfHits(rule_summary_df, Len(rule_summary_df)) = matched
        /\ \A k \in 1..Len(rule_summary_df) :
             LET pct == rule_summary_df[k].rule_coverage_pct
             IN  /\ rule_summary_df[k].total_rows = total
                 /\ pct # NaN /\ pct.e <= 2
                 /\ total = 0 => pct = Dec(0)
                 \* no multiple of 0.01 is nearer to matched / total * 100
                 /\ total > 0 => 2 * Abs(Hundredths(pct) * total - 10000 * matched) <= total
                 /\ (matched = 7 /\ total = 10) => pct = Dec(70)

\* 7 of 10 rows matched: 70.0, with categories of 4, 3 and 0 hits; and the
\* summary of a pass without rows is there as well
C11_Witness ==
  /\ pc = "categorized"
  /\ Len(df.rows) = 10
  /\ Len(rule_matches_df) = 7
  /\ \A k \in 1..Len(rule_summary_df) : rule_summary_df[k].rule_coverage_pct = Dec(70)
  /\ \E k \in 1..Len(rule_summary_df) :
       rule_summary_df[k].category = "Coffee" /\ rule_summary_df[k].rule_hits = 4
  /\ \E k \in 1..Len(rule_summary_df) :
       rule_summary_df[k].category = "Entertainment" /\ rule_summary_df[k].rule_hits = 3
  /\ \E k \in 1..Len(rule_summary_df) :
       rule_summary_df[k].category = "Rent" /\ rule_summary_df[k].rule_hits = 0

(***************************************************************************)
(* C12.  Miss classification: every row of the misses table carries the    *)
(* reason empty_description if its description is blank or whitespace-only *)
(* (a missing description cell has no text and counts as blank), and       *)
(* no_keyword_match otherwise.                                             *)
(***************************************************************************)
BlankDescription(v) == v = Missing \/ str_strip(v.text) = ""

C12_MissClassification ==
  pc = "categorized" =>
    \A k \in 1..Len(rule_misses_df) :
      rule_misses_df[k].reason =
        IF BlankDescription(rule_misses_df[k].description)
        THEN "empty_description" ELSE "no_keyword_match"

(***************************************************************************)
(* C13.  Determinism across calls: every call of the Categorizer on the    *)
(* same rows returns the same resolved categories, matches, misses and     *)
(* summary as every other call, the first one (which compiles the          *)
(* patterns) included, and every call leaves the module holding the same   *)
(* compiled patterns, those of the rule set.                               *)
(***************************************************************************)
C13_DeterministicCalls ==
  pc = "calling" =>
    /\ \A i, j \in 1..Len(calls) : calls[i] = calls[j]
    /\ \A i \in 1..Len(calls) :
         /\ calls[i].compiled = initialize_patterns
         /\ Len(calls[i].resolved) = Len(df.rows)
    /\ calls # << >> => compiled_patterns = calls[Len(calls)].compiled

\* three calls on a table with a matched and a missed row
C13_Witness ==
  /\ pc = "calling"
  /\ Len(calls) >= 3
  /\ calls[1].matches_df # << >>
  /\ calls[1].misses_df # << >>
  /\ calls[3] = calls[1]

(***************************************************************************)
(* C14.  Canonicalizer: the canonical value of a resolved category c is    *)
(* the replacement of the first pattern of the remap, in its order, that   *)
(* matches the whole of c whatever the case (whitespace around it          *)
(* allowed), and c itself when no pattern matches; the outcome is that of  *)
(* one first-match lookup, and the remap applied to its own output, as     *)
(* CategoryGroup is computed, changes nothing.                             *)
(***************************************************************************)
\* t is the parts in their order, with any run of "_" and whitespace
\* between two parts
RECURSIVE Derives(_, _)
Derives(parts, t) ==
  IF Len(parts) = 1 THEN t = parts[1]
  ELSE \E gap \in 0..Len(t) :
         /\ Len(parts[1]) + gap <= Len(t)
         /\ SubSeq(t, 1, Len(parts[1])) = parts[1]
         /\ \A i \in (Len(parts[1]) + 1)..(Len(parts[1]) + gap) : Char(t, i) \in GapChars
         /\ Derives(Tail(parts), SubSeq(t, Len(parts[1]) + gap + 1, Len(t)))

\* the pattern matches the whole of c, case ignored, whitespace around allowed
WholeMatch(pattern, c) ==
  \E a, b \in 0..Len(c) :
    /\ a + b <= Len(c)
    /\ \A i \in 1..a : Char(c, i) \in Whitespace
    /\ \A i \in (Len(c) - b + 1)..Len(c) : Char(c, i) \in Whitespace
    /\ Derives(pattern.parts, str_upper(SubSeq(c, a + 1, Len(c) - b)))

FirstMatchLookup(c) ==
  LET matching == {k \in 1..Len(CATEGORY_CANON) : WholeMatch(CATEGORY_CANON[k], c)}
  IN  IF matching = {} THEN c ELSE CATEGORY_CANON[Min(matching)].value

C14_Canonicalizer ==
  /\ pc \in {"remapped", "grouped"} =>
       \A i \in 1..Len(cat_series) :
         cat_series[i] = Text(FirstMatchLookup(resolved_filled[i].text))
  /\ pc = "grouped" =>
       \A i \in 1..Len(df.rows) :
         /\ df.rows[i].cells["CategoryGroup"] = Text(FirstMatchLookup(resolved_filled[i].text))
         /\ df.rows[i].cells["CategoryGroup"] = df.rows[i].cells["Category"]

\* "dining_Out" went to Household through the second pattern that could
\* bear on it, and its group is Household as well
C14_Witness ==
  /\ pc = "grouped"
  /\ resolved_filled = <<Text("dining_Out")>>
  /\ cat_series = <<Text("Household")>>
  /\ df.rows[1].cells["CategoryGroup"] = Text("Household")

(***************************************************************************)
(* C15.  In the table handed to the output layer CategoryOriginal of every *)
(* row holds the category before the remap (the rule's matched category,   *)
(* else the pre-existing value, else "Uncategorized") and CategoryGroup    *)
(* the canonical remap of that value: a row the Coffee rule matched has    *)
(* CategoryOriginal "Coffee" and CategoryGroup "Household".                *)
(***************************************************************************)
C15_OriginalAndGroup ==
  pc = "categorized" =>
    \A i \in 1..Len(df.rows) :
      /\ df.rows[i].cells["CategoryOriginal"] = resolved_filled[i]
      /\ df.rows[i].cells["CategoryGroup"] = Text(FirstMatchLookup(resolved_filled[i].text))
      /\ RuleCategory(i) = Text("Coffee") =>
           /\ df.rows[i].cells["CategoryOriginal"] = Text("Coffee")
           /\ df.rows[i].cells["CategoryGroup"] = Text("Household")

(***************************************************************************)
(* What a file's attributes let the reader do, stated from them alone.     *)
(***************************************************************************)
OldMacEndings(file) == file.cr /\ ~file.lf

\* some attempt of the reader parses the file
Readable(file) ==
  /\ file.kind = "file"
  /\ \/ file.pandas_ok
     \/ OldMacEndings(file) /\ file.tmp_ok /\ (file.norm_pandas_ok \/ file.norm_manual_ok)
     \/ file.manual_ok

\* the positions of input_paths the loop has dealt with
Dealt == 1..(path_at - 1)

ReadablePositions == {i \in Dealt : Readable(disk[input_paths[i]])}

PositionOf(path) == CHOOSE i \in 1..Len(input_paths) : input_paths[i] = path

SourceOfRow(row) == <<row.cells["__source_dir"].text, row.cells["__source_file"].text>>

(***************************************************************************)
(* C16.  Per-file failure isolation: load_transactions deals with the      *)
(* input paths in order; a path whose read fails is recorded once in the   *)
(* failure list, with its error message, and the paths after it are still  *)
(* attempted; every path dealt with is in exactly one of the loaded frames *)
(* and the failure list; the call fails, with the error 'No inputs could   *)
(* be read', if and only if every path failed, and returns otherwise the   *)
(* concatenation of the files read, in their order.                        *)
(***************************************************************************)
C16_FailureIsolation ==
  pc \in {"loading", "loaded", "load_error"} =>
    LET n == path_at - 1
        loaded == PositionsFrom([i \in 1..n |-> i \in ReadablePositions], 1, n)
        skipped == PositionsFrom([i \in 1..n |-> i \notin ReadablePositions], 1, n)
    IN  /\ Len(frames) = Len(loaded)
        /\ \A k \in 1..Len(loaded) :
             frames[k] = with_source(FrameOf(input_paths[loaded[k]], disk[input_paths[loaded[k]]]),
                                     input_paths[loaded[k]])
        /\ Len(failed) = Len(skipped)
        /\ \A k \in 1..Len(skipped) :
             /\ failed[k][1] = input_paths[skipped[k]]
             /\ failed[k][2] # ""
        /\ \A i \in Dealt : \E a \in 1..Len(attempts) : attempts[a][1] = input_paths[i]
        /\ pc \in {"loaded", "load_error"} => n = Len(input_paths)
        /\ pc = "load_error" <=> (n = Len(input_paths) /\ ReadablePositions = {} /\ pc # "loading")
        /\ pc = "load_error" =>
             error = Error("RuntimeError", "No inputs could be read. Check formats/permissions.")
        /\ pc = "loaded" =>
             /\ error = NoError
             /\ \A i \in ReadablePositions :
                  Cardinality({r \in 1..Len(df_raw.rows) :
                                 SourceOfRow(df_raw.rows[r]) = input_paths[i]})
                    = disk[input_paths[i]].rows
             /\ \A r \in 1..Len(df_raw.rows) :
                  /\ df_raw.rows[r].index = r - 1
                  /\ PositionOf(SourceOfRow(df_raw.rows[r])) \in ReadablePositions
             /\ \A q, r \in 1..Len(df_raw.rows) :
                  q < r => PositionOf(SourceOfRow(df_raw.rows[q]))
                             <= PositionOf(SourceOfRow(df_raw.rows[r]))

\* the first path failed and the second was loaded all the same
C16_Witness ==
  /\ pc = "loaded"
  /\ Len(input_paths) = 2
  /\ failed # << >>
  /\ failed[1][1] = input_paths[1]
  /\ Len(frames) = 1
  /\ SourceOfRow(df_raw.rows[1]) = input_paths[2]

(***************************************************************************)
(* C19: the order in which read_csv_robust escalates.                      *)
(***************************************************************************)
\* the steps read_csv_robust took on the path p so far, in order
StepsAt(p) ==
  LET own == SelectSeq(attempts, LAMBDA a : a[1] = p)
  IN  [i \in 1..Len(own) |-> own[i][2]]

Did(p, step) == \E i \in 1..Len(attempts) : attempts[i] = <<p, step>>

DidBefore(p, first, second) ==
  \E i, j \in 1..Len(attempts) :
    i < j /\ attempts[i] = <<p, first>> /\ attempts[j] = <<p, second>>

\* whether the parse attempt of that name succeeds on the file
Succeeds(file, step) ==
  CASE step = "pandas" -> file.pandas_ok
    [] step = "pandas_norm" -> file.norm_pandas_ok
    [] step = "manual_norm" -> file.norm_manual_ok
    [] step = "manual" -> file.manual_ok
    [] OTHER -> FALSE

ParseSteps == {"pandas", "pandas_norm", "manual_norm", "manual"}

\* C19: read_csv_robust validates the path first (a missing path and a
\* directory raise before anything is sniffed or read), then sniffs, then
\* tries the fast parse on the file; the normalized copy is written, and the
\* fast parse retried on it, only after the fast parse failed on a file that
\* holds a carriage return and no line feed; a manual parse runs only after
\* every earlier attempt failed; the table returned is that of the first
\* attempt that succeeded; and the file read is never written.
C19_EscalationOrder ==
  \A p \in {input_paths[i] : i \in 1..Len(input_paths)} :
    LET file == disk[p]
        steps == StepsAt(p)
    IN  /\ steps # << >> => steps[1] = "validate"
        /\ file.kind # "file" => Len(steps) <= 1
        /\ (pc = "raised" /\ p = path_now /\ file.kind = "missing")
             => read_result = Raised("File not found: " \o PathText(p))
        /\ (pc = "raised" /\ p = path_now /\ file.kind = "dir")
             => read_result = Raised("Directory passed where a file was expected.")
        /\ Len(steps) >= 2 => steps[2] = "sniff"
        /\ Len(steps) >= 3 => steps[3] = "pandas"
        /\ Did(p, "write_tmp")
             => /\ DidBefore(p, "pandas", "write_tmp")
                /\ ~file.pandas_ok
                /\ file.cr /\ ~file.lf
        /\ Did(p, "pandas_norm")
             => /\ DidBefore(p, "write_tmp", "pandas_norm")
                /\ tmp_path_of(p) \in written
        /\ \A i \in 1..Len(steps) :
             steps[i] \in {"manual_norm", "manual"}
               => \A j \in 1..(i - 1) :
                    steps[j] \in ParseSteps => ~Succeeds(file, steps[j])
        /\ Did(p, "manual_norm") => DidBefore(p, "pandas_norm", "manual_norm")
        /\ Did(p, "manual") => DidBefore(p, "pandas", "manual")
        /\ (pc = "returned" /\ p = path_now)
             => /\ read_result.via = steps[Len(steps)]
                /\ Succeeds(file, read_result.via)
                /\ \A j \in 1..(Len(steps) - 1) :
                     steps[j] \in ParseSteps => ~Succeeds(file, steps[j])
                /\ read_result.frame = FrameOf(p, file)
        /\ p \notin written

\* a file of old Mac line endings on which the fast parse failed, whose
\* normalized copy neither parser could read, returned by the last manual
\* parse
C19_Witness ==
  /\ pc = "returned"
  /\ read_result.via = "manual"
  /\ Did(path_now, "write_tmp")
  /\ Did(path_now, "manual_norm")
  /\ tmp_path_of(path_now) \in written

(***************************************************************************)
(* C17: the failure of the input resolution.                               *)
(***************************************************************************)
NoInputsMessage == "No CSV inputs found. Drop files/folders containing CSVs."

\* C17: when the paths given expand to no CSV path, run_pipeline fails with
\* the "No CSV inputs found" error, with no input file read and nothing
\* written; the error is of another kind than the one load_transactions
\* raises when there were CSV paths and every one of them failed to read.
C17_NoInputsError ==
  /\ (pc # "start" /\ input_paths = << >>) => pc = "input_error"
  /\ pc = "input_error"
       => /\ input_paths = << >>
          /\ error = Error("FileNotFoundError", NoInputsMessage)
          /\ attempts = << >>
          /\ frames = << >> /\ failed = << >>
          /\ written = {}
          /\ combined_dir = ""
  /\ pc = "load_error"
       => /\ input_paths # << >>
          /\ Len(failed) = Len(input_paths)
          /\ error.kind = "RuntimeError"
          /\ error.kind # "FileNotFoundError"
          /\ error.message # NoInputsMessage

\* paths were given, a directory without a CSV file among them, and the run
\* ended on the error
C17_Witness ==
  /\ pc = "input_error"
  /\ raw_paths # << >>
  /\ \E i \in 1..Len(raw_paths) : raw_paths[i] = <<"/in", "b">>
  /\ error.message = NoInputsMessage

(***************************************************************************)
(* C18: the schema error.                                                  *)
(***************************************************************************)
DescriptionCandidates == {"description", "details", "payee", "memo"}

\* C18: when the normalized combined table has none of the columns
\* description, details, payee, memo, run_pipeline fails with an error whose
\* message lists the columns the table has, with no signed amount computed,
\* no row categorized and no output file written.
C18_SchemaError ==
  /\ (pc # "normalized" /\ df_in.columns \cap DescriptionCandidates = {})
       => pc = "schema_error"
  /\ pc = "schema_error"
       => /\ df_in.columns \cap DescriptionCandidates = {}
          /\ error = SchemaError(df_in.columns)
          /\ signed_amount = << >>
          /\ "_signed_amount" \notin df.columns
          /\ cat_series = << >>
          /\ "Category" \notin df.columns
          /\ rule_matches_df = << >> /\ rule_misses_df = << >> /\ rule_summary_df = << >>
          /\ compiled_patterns = NoPatterns
          /\ written = {}
  /\ written # {} => pc = "written"

\* the table of one file that has an amount column and no description
C18_Witness ==
  /\ pc = "schema_error"
  /\ df_in = NoDescriptionExample
  /\ error.columns = {"__source_dir", "__source_file", "amount"}

(***************************************************************************)
(* C20: the Schema Normalizer's transformations are idempotent.            *)
(***************************************************************************)
\* C20: a transformation of the Schema Normalizer applied a second time, to
\* the table its first application left, leaves that table as it is.
C20_NormalizerIdempotence ==
  \A i \in 1..(Len(applied) - 1) :
    applied[i + 1].name = applied[i].name => applied[i + 1].after = applied[i].after

\* the same for normalize_headers and normalize_date_columns alone
C20_HeadersAndDatesIdempotent ==
  \A i \in 1..(Len(applied) - 1) :
    (applied[i + 1].name = applied[i].name /\ applied[i].name # "drop_table_name_rows")
      => applied[i + 1].after = applied[i].after

(***************************************************************************)
(* C21: sniff_format is total.                                             *)
(***************************************************************************)
EncodingOrder == <<"utf-8-sig", "utf-8", "mac_roman", "latin1">>

\* the encodings under which the read, the delimiter detection and the
\* header detection all succeed
Sniffable == {e \in 1..4 : sniff_outcomes[e].ok}

\* C21: sniff_format ends in a return for every file; it tries the
\* encodings in the order UTF-8-with-BOM, UTF-8, legacy Mac, Latin-1 and
\* returns what the first encoding gives under which reading and both
\* detections succeed; it returns the default by line 47 exactly when they
\* fail under all four.
C21_SnifferTotality ==
  /\ pc \in {"sniffing", "sniffed"}
  /\ sniff_tried = SubSeq(EncodingOrder, 1, Len(sniff_tried))
  /\ \A k \in 1..(Len(sniff_tried) - 1) : ~sniff_outcomes[k].ok
  /\ pc = "sniffing" => /\ sniff_result = << >>
                        /\ \A k \in 1..Len(sniff_tried) : ~sniff_outcomes[k].ok
  /\ pc = "sniffed"
       => /\ Len(sniff_result) = 1
          /\ IF Sniffable = {}
             THEN /\ sniff_tried = EncodingOrder
                  /\ sniff_result[1] = [encoding |-> "utf-8-sig", delimiter |-> ",",
                                        quotechar |-> "\"", has_header |-> TRUE]
             ELSE LET first == CHOOSE e \in Sniffable : \A f \in Sniffable : e <= f
                  IN  /\ Len(sniff_tried) = first
                      /\ sniff_result[1].encoding = EncodingOrder[first]
                      /\ sniff_result[1].delimiter = sniff_outcomes[first].delimiter
                      /\ sniff_result[1].quotechar = sniff_outcomes[first].quotechar
                      /\ sniff_result[1].has_header = sniff_outcomes[first].has_header

\* a file that cannot be read under any encoding, all four tried, and the
\* default returned
C21_Witness ==
  /\ pc = "sniffed"
  /\ \A e \in 1..4 : sniff_outcomes[e] = Failed("read")
  /\ sniff_tried = EncodingOrder
  /\ sniff_result = <<sniff_default>>

(***************************************************************************)
(* C23: the dates are normalized value by value.                           *)
(***************************************************************************)
\* the candidate date columns the table t has
DateColumnsOf(t) == {c \in t.columns : \E k \in 1..Len(DateCandidates) : DateCandidates[k] = c}

\* C23: in every candidate date column of a table handed to
\* normalize_date_columns, a text that parses as a date is replaced by that
\* date as a YYYY-MM-DD text, and a text that does not parse, or a missing
\* value, is left as it was, whatever the other values of the column are.
C23_DatesPerValue ==
  \A k \in 1..Len(applied) :
    applied[k].name = "normalize_date_columns"
      => \A c \in DateColumnsOf(applied[k].before) :
           \A i \in 1..Len(applied[k].before.rows) :
             LET was == applied[k].before.rows[i].cells[c]
                 is == applied[k].after.rows[i].cells[c]
             IN  /\ (IsText(was) /\ parse_date(was.text) # NaT)
                      => is = strftime(parse_date(was.text))
                 /\ (IsText(was) /\ parse_date(was.text) = NaT) => is = was
                 /\ was = Missing => is = Missing

(***************************************************************************)
(* C22: the metadata rows are gone from the table of a run.                *)
(***************************************************************************)
SourceColumns == {"__source_file", "__source_dir"}

\* the cells of a row that came from its file
FileCells(t, i) == {c \in t.columns \ SourceColumns : notna(t.rows[i].cells[c])}

\* a row with one cell, that cell a table name
TableNameRow(t, i) ==
  /\ Cardinality(FileCells(t, i)) = 1
  /\ \A c \in FileCells(t, i) :
       /\ IsText(t.rows[i].cells[c])
       /\ str_startswith(str_lower(str_strip(t.rows[i].cells[c].text)), "table ")

\* the index labels of the rows of t that stay: those with a cell, less the
\* first of them when it is a table name
RowsToKeep(t) ==
  LET filled == {i \in 1..Len(t.rows) : FileCells(t, i) # {}}
      first == IF filled = {} THEN 0 ELSE Min(filled)
  IN  {t.rows[i].index : i \in {i \in filled : ~(i = first /\ TableNameRow(t, i))}}

\* C22: of the rows loaded, the table that reaches the Amount Resolver
\* holds those that have a cell of their file, less the first of them when
\* its one cell is a table name.
C22_MetadataRowsRemoved ==
  pc = "normalized"
    => {df.rows[i].index : i \in 1..Len(df.rows)} = RowsToKeep(df_raw)

(***************************************************************************)
(* C25: the trimming touches texts alone.                                  *)
(***************************************************************************)
\* C25: the trimming step gives each text its stripped text and leaves a
\* number and a missing value as they were, in every column.
C25_TrimmingTouchesTextOnly ==
  \A k \in 1..Len(applied) :
    applied[k].name = "strip"
      => \A i \in 1..Len(applied[k].before.rows) : \A c \in applied[k].before.columns :
           LET was == applied[k].before.rows[i].cells[c]
               is == applied[k].after.rows[i].cells[c]
           IN  /\ IsText(was) => is = Text(str_strip(was.text))
               /\ (IsNum(was) \/ was = Missing) => is = was


\* the names line 119 gives the columns of a file without a header
SyntheticNames == <<"col_1", "col_2", "col_3", "col_4">>

\* the cell of a data row at a column of the header
PaddedCell(row, j) == IF j <= Len(row) THEN row[j] ELSE ""

\* C24: read_with_csv_module fails with the empty-file error exactly on a
\* file of no rows; otherwise, with a header detected the header is the first
\* row and the data the rows after it, without one the columns are col_1..col_n
\* with n the longest row's length and every row is data; each data row has as
\* many cells as the header, its own cells in order up to that width and empty
\* strings after them
C24_ManualParseShape ==
  pc = "manual_parsed" =>
    LET rows == csv_in.rows
        out == csv_out[1]
        source == IF csv_in.has_header THEN Tail(rows) ELSE rows
    IN  /\ Len(csv_out) = 1
        /\ rows = << >> <=> out = [ok |-> FALSE, error |-> "CSV appears to be empty."]
        /\ rows # << >> =>
              /\ out.ok
              /\ IF csv_in.has_header THEN out.header = rows[1]
                 ELSE /\ \E i \in 1..Len(rows) : Len(rows[i]) = Len(out.header)
                      /\ \A i \in 1..Len(rows) : Len(rows[i]) <= Len(out.header)
                      /\ out.header = SubSeq(SyntheticNames, 1, Len(out.header))
              /\ Len(out.rows) = Len(source)
              /\ \A i \in 1..Len(source) :
                   /\ Len(out.rows[i]) = Len(out.header)
                   /\ \A j \in 1..Len(out.header) : out.rows[i][j] = PaddedCell(source[i], j)

\* a header of one column over a row of two fields and a blank line
C24_Witness ==
  /\ pc = "manual_parsed"
  /\ csv_in = [rows |-> << <<"a">>, <<"a", "">>, << >> >>, has_header |-> TRUE]
  /\ csv_out = <<[ok |-> TRUE, header |-> <<"a">>, rows |-> << <<"a">>, <<"">> >>]>>
\* the signed amounts run_pipeline computes for one file processed alone
SignedAlone(frame) ==
  LET alone == concat(<<frame>>)
  IN  build_signed_amount_per_source(alone,
        pick_col(alone.columns, <<"debit", "withdrawal", "outflow">>),
        pick_col(alone.columns, <<"credit", "deposit", "inflow">>),
        pick_col(alone.columns, <<"amount", "amt", "value", "transaction_amount">>))

\* the rows loaded before those of the k-th file
RowsBefore(k) == Len(FlatRows(frames, k - 1))

\* C26: the signed amounts computed for the rows of one source file in a
\* run of differently named files are the ones computed when that file is
\* processed alone
C26_CrossFileIndependence ==
  pc = "signed" =>
    \A k \in 1..Len(frames) :
      \A i \in 1..Len(frames[k].rows) :
        signed_amount[RowsBefore(k) + i] = SignedAlone(frames[k])[i]
\* the files of a list of paths
FilesOf(paths) == {paths[i] : i \in 1..Len(paths)}

\* C27: a second run on the same paths expands to the same set of input
\* CSV files as the first
C27_RerunStability ==
  pc = "run_again" => FilesOf(input_paths) = FilesOf(previous_inputs)
\* C28: for every row of the matches table, matched_keyword is, character
\* for character, one of the keywords the rule set lists under that row's
\* matched_category
C28_KeywordBelongsToRuleSet ==
  \A k \in 1..Len(rule_matches_df) :
    \E c \in 1..Len(CATEGORY_RULES) :
      /\ rule_matches_df[k].matched_category = Text(CATEGORY_RULES[c].category)
      /\ \E j \in 1..Len(CATEGORY_RULES[c].keywords) :
           rule_matches_df[k].matched_keyword = Text(CATEGORY_RULES[c].keywords[j])
====
